---------------------------- MODULE Spec2Model ----------------------------
(***************************************************************************)
(* Fritz!Box mesh topology reconstruction (custom_components/fritzmesh).   *)
(*                                                                         *)
(* parse_mesh_topology is modelled pass by pass: Index (passes 1 and 2),   *)
(* one WalkLink step per link of pass 3 in the raw enumeration order, and  *)
(* Assemble (hand-back of the accumulators, pass 4 and the final sort).    *)
(* FritzMeshFetcher.fetch goes on with GetHostsInfo (the host-list call,   *)
(* which returns a list or raises) and Enrich (enrich_with_host_info       *)
(* inside the try block, and the return).                                  *)
(*                                                                         *)
(* Text that the code inspects character by character (device names for    *)
(* the sort, interface names for the "UPLINK" test, MAC addresses) is a    *)
(* sequence of ASCII code points.  Optional[...] values are sequences of   *)
(* length 0 (None) or 1.  A dict with a missing key is a record without    *)
(* that field, read through Get as the code reads it through dict.get.     *)
(***************************************************************************)
EXTENDS Integers, Sequences, FiniteSets, TLC

VARIABLES
    raw,                \* the snapshot handed to parse_mesh_topology
    pc,                 \* "index" | "walk" | "done" | "enrich" | "returned"
                        \* | "twice",
                        \* in a refresh "poll" | "fetched" | "notify"
    all_nodes_by_uid,   \* insertion-ordered dict, as the sequence of its entries
    mesh_nodes_by_uid,  \* MeshNode stubs, in index order
    mesh_node_clients,  \* hub uid -> sequence of ClientDevice
    mesh_node_parent,   \* child uid -> parent tuple (a record)
    walk_order,         \* the link visits of pass 3, in enumeration order
    cursor,             \* number of visits of walk_order already made
    topology,           \* the MeshTopology returned, NoTopology before
    hosts_info,         \* what fh.get_hosts_info() did: NotCalled before
    raised,             \* an exception has left fetch
    invocations,        \* calls of parse_mesh_topology so far
    earlier,            \* the snapshot and result of each earlier call
    data,               \* coordinator.data: NoData before the first success
    update_failed,      \* the last refresh raised UpdateFailed
    pending,            \* the listeners still to be called after a refresh
    known_node_macs,    \* sensor.py: known_node_macs
    known_client_macs,  \* sensor.py: known_client_macs
    binary_known_client_macs,   \* binary_sensor.py: known_client_macs
    entities,           \* bag of the entities given to async_add_entities
    refreshes           \* refreshes started so far

\* the state of the coordinator and of the two platforms
coordinator_vars ==
    <<data, update_failed, pending, known_node_macs, known_client_macs,
      binary_known_client_macs, entities, refreshes>>

vars == <<raw, pc, all_nodes_by_uid, mesh_nodes_by_uid, mesh_node_clients,
          mesh_node_parent, walk_order, cursor, topology, hosts_info, raised,
          invocations, earlier, coordinator_vars>>

-----------------------------------------------------------------------------
(* Python values *)

None == <<>>
Some(v) == <<v>>

\* None where the code expects a str: any method call on it raises
Null == <<-1>>

\* {}
EmptyDict == <<>>

Get(d, key, default) == IF key \in DOMAIN d THEN d[key] ELSE default

RECURSIVE Concat(_)
Concat(ss) == IF ss = <<>> THEN <<>> ELSE Head(ss) \o Concat(Tail(ss))

\* str.upper() on ASCII text
Upper(s) == [i \in DOMAIN s |-> IF s[i] \in 97..122 THEN s[i] - 32 ELSE s[i]]

\* needle in hay
Contains(hay, needle) ==
    \E i \in 0..(Len(hay) - Len(needle)) :
        SubSeq(hay, i + 1, i + Len(needle)) = needle

\* a < b for Python str: lexicographic by code point
StrLess(a, b) ==
    \E i \in 1..Len(b) :
        /\ \A j \in 1..(i - 1) : j <= Len(a) /\ a[j] = b[j]
        /\ \/ i = Len(a) + 1
           \/ i <= Len(a) /\ a[i] < b[i]

S_UPLINK == <<85, 80, 76, 73, 78, 75>>                    \* "UPLINK"

-----------------------------------------------------------------------------
(* Data classes *)

ClientDevice(uid, name, mac, ctype, cstate, cur_rx, cur_tx, max_rx, max_tx, iface) ==
    [uid |-> uid, name |-> name, mac |-> mac,
     connection_type |-> ctype,
     connection_state |-> cstate,
     ip |-> None,
     cur_rx_kbps |-> cur_rx, cur_tx_kbps |-> cur_tx,
     max_rx_kbps |-> max_rx, max_tx_kbps |-> max_tx,
     interface_name |-> iface]

MeshNode(entry) ==
    [uid |-> entry.uid, name |-> entry.name, mac |-> entry.mac,
     role |-> entry.mesh_role, model |-> entry.model,
     vendor |-> entry.vendor, firmware |-> entry.firmware,
     ip |-> entry.ip, is_meshed |-> TRUE, clients |-> <<>>,
     parent_uid |-> None, parent_link_type |-> "",
     parent_link_state |-> "", parent_interface_name |-> <<>>,
     parent_cur_rx_kbps |-> 0, parent_cur_tx_kbps |-> 0,
     parent_max_rx_kbps |-> 0, parent_max_tx_kbps |-> 0]

NoTopology == [schema_version |-> "", mesh_nodes |-> <<>>,
               unassigned_clients |-> <<>>, raw |-> EmptyDict, built |-> FALSE]

-----------------------------------------------------------------------------
(* _extract_primary_ipv4 *)

\* value.split("/", 1)[0]
BeforeSlash(v) ==
    IF \E i \in DOMAIN v : v[i] = 47
    THEN SubSeq(v, 1, (CHOOSE i \in DOMAIN v :
                          v[i] = 47 /\ \A j \in 1..(i - 1) : v[j] # 47) - 1)
    ELSE v

RECURSIVE ExtractPrimaryIpv4(_)
ExtractPrimaryIpv4(ip_addresses) ==
    IF ip_addresses = <<>> THEN None
    ELSE LET ip_entry == Head(ip_addresses)
             value == Get(ip_entry, "value", <<>>)
         IN  IF Get(ip_entry, "version", "") # "V4" \/ value = <<>>
             THEN ExtractPrimaryIpv4(Tail(ip_addresses))
             ELSE Some(BeforeSlash(value))

-----------------------------------------------------------------------------
(* parse_mesh_topology, pass 1: index all nodes by uid *)

Entry(node) ==
    LET uid == Get(node, "uid", <<>>)
    IN  [uid |-> uid,
         name |-> Get(node, "device_name", uid),
         mac |-> Get(node, "device_mac_address", <<>>),
         ip |-> ExtractPrimaryIpv4(Get(node, "ip_addresses", <<>>)),
         model |-> Get(node, "device_model", <<>>),
         vendor |-> Get(node, "device_manufacturer", <<>>),
         firmware |-> Get(node, "device_firmware_version", <<>>),
         is_meshed |-> Get(node, "is_meshed", FALSE),
         mesh_role |-> Get(node, "mesh_role", "unknown"),
         raw |-> node]

Has(d, uid) == \E i \in DOMAIN d : d[i].uid = uid

Lookup(d, uid) == d[CHOOSE i \in DOMAIN d : d[i].uid = uid]

\* d[uid] = entry on an insertion-ordered dict: a known key keeps its place
DictPut(d, entry) ==
    IF Has(d, entry.uid)
    THEN [i \in DOMAIN d |-> IF d[i].uid = entry.uid THEN entry ELSE d[i]]
    ELSE Append(d, entry)

RECURSIVE IndexNodes(_, _)
IndexNodes(d, raw_nodes) ==
    IF raw_nodes = <<>> THEN d
    ELSE IndexNodes(DictPut(d, Entry(Head(raw_nodes))), Tail(raw_nodes))

(* pass 2: MeshNode stubs and empty client lists for the is_meshed entries *)

IsMeshed(entry) == entry.is_meshed

MeshStubs(index) ==
    LET hubs == SelectSeq(index, IsMeshed)
    IN  [i \in DOMAIN hubs |-> MeshNode(hubs[i])]

HubUids(index) == {index[i].uid : i \in {j \in DOMAIN index : index[j].is_meshed}}

-----------------------------------------------------------------------------
(* pass 3: the links in enumeration order (node, interface, link) *)

\* variant: a link without a state counts as CONNECTED
LinksOfIface_ConnectedByDefault(entry, iface) ==
    LET links == Get(iface, "node_links", <<>>)
    IN  [k \in DOMAIN links |->
            [uid |-> entry.uid,
             iface_type |-> Get(iface, "type", ""),
             iface_name |-> Get(iface, "name", <<>>),
             n1 |-> Get(links[k], "node_1_uid", <<>>),
             n2 |-> Get(links[k], "node_2_uid", <<>>),
             state |-> Get(links[k], "state", "CONNECTED"),
             cur_rx |-> Get(links[k], "cur_data_rate_rx", 0),
             cur_tx |-> Get(links[k], "cur_data_rate_tx", 0),
             max_rx |-> Get(links[k], "max_data_rate_rx", 0),
             max_tx |-> Get(links[k], "max_data_rate_tx", 0)]]

LinksOfIface(entry, iface) ==
    LET links == Get(iface, "node_links", <<>>)
    IN  [k \in DOMAIN links |->
            [uid |-> entry.uid,
             iface_type |-> Get(iface, "type", ""),
             iface_name |-> Get(iface, "name", <<>>),
             n1 |-> Get(links[k], "node_1_uid", <<>>),
             n2 |-> Get(links[k], "node_2_uid", <<>>),
             state |-> Get(links[k], "state", "DISCONNECTED"),
             cur_rx |-> Get(links[k], "cur_data_rate_rx", 0),
             cur_tx |-> Get(links[k], "cur_data_rate_tx", 0),
             max_rx |-> Get(links[k], "max_data_rate_rx", 0),
             max_tx |-> Get(links[k], "max_data_rate_tx", 0)]]

LinksOfNode(entry) ==
    LET ifaces == Get(entry.raw, "node_interfaces", <<>>)
    IN  Concat([j \in DOMAIN ifaces |-> LinksOfIface(entry, ifaces[j])])

WalkOrder(index) == Concat([i \in DOMAIN index |-> LinksOfNode(index[i])])

\* variant: without the node_1 guard, a record is taken from either endpoint
Skipped_OrphanOnly(index, w) == ~Has(index, w.n2)

\* the two "continue" guards: not node_1's view, or an orphaned node_2
Skipped(index, w) == w.n1 # w.uid \/ ~Has(index, w.n2)

\* Case A: mesh node -> non-mesh client
IsClientLink(index, w) ==
    /\ ~Skipped(index, w)
    /\ Lookup(index, w.uid).is_meshed
    /\ ~Lookup(index, w.n2).is_meshed

\* Case B: mesh node -> mesh node
IsBackboneLink(index, w) ==
    /\ ~Skipped(index, w)
    /\ Lookup(index, w.uid).is_meshed
    /\ Lookup(index, w.n2).is_meshed

ClientOfLink(index, w) ==
    LET n2_entry == Lookup(index, w.n2)
    IN  ClientDevice(w.n2, n2_entry.name, n2_entry.mac, w.iface_type, w.state,
                     w.cur_rx, w.cur_tx, w.max_rx, w.max_tx, w.iface_name)

\* variant: a client already on the hub's list is not added again
ClientsAfter_OncePerClient(clients, index, w) ==
    IF /\ IsClientLink(index, w)
       /\ w.n1 \in DOMAIN clients
       /\ \A i \in DOMAIN clients[w.n1] : clients[w.n1][i].uid # w.n2
    THEN [clients EXCEPT ![w.n1] = Append(@, ClientOfLink(index, w))]
    ELSE clients

\* variant: only a CONNECTED link attaches its client
ClientsAfter_ConnectedOnly(clients, index, w) ==
    IF /\ IsClientLink(index, w)
       /\ w.n1 \in DOMAIN clients
       /\ w.state = "CONNECTED"
    THEN [clients EXCEPT ![w.n1] = Append(@, ClientOfLink(index, w))]
    ELSE clients

\* variant: an other endpoint that is not indexed is attached under its uid
ClientsAfter_OrphanAttached(clients, index, w) ==
    IF w.n1 = w.uid /\ ~Has(index, w.n2) /\ w.n1 \in DOMAIN clients
    THEN [clients EXCEPT ![w.n1] =
             Append(@, ClientDevice(w.n2, w.n2, <<>>, w.iface_type, w.state,
                                    w.cur_rx, w.cur_tx, w.max_rx, w.max_tx,
                                    w.iface_name))]
    ELSE IF IsClientLink(index, w) /\ w.n1 \in DOMAIN clients
    THEN [clients EXCEPT ![w.n1] = Append(@, ClientOfLink(index, w))]
    ELSE clients

\* variant: a link owned by a non-hub attaches its owner to the hub it names
ClientsAfter_EitherEndpoint(clients, index, w) ==
    IF IsClientLink(index, w) /\ w.n1 \in DOMAIN clients
    THEN [clients EXCEPT ![w.n1] = Append(@, ClientOfLink(index, w))]
    ELSE IF /\ ~Skipped(index, w)
            /\ ~Lookup(index, w.uid).is_meshed
            /\ Lookup(index, w.n2).is_meshed
            /\ w.n2 \in DOMAIN clients
    THEN LET n1_entry == Lookup(index, w.n1)
         IN  [clients EXCEPT ![w.n2] =
                 Append(@, ClientDevice(w.n1, n1_entry.name, n1_entry.mac,
                                        w.iface_type, w.state, w.cur_rx,
                                        w.cur_tx, w.max_rx, w.max_tx,
                                        w.iface_name))]
    ELSE clients

\* variant: the other endpoint of a hub's link is attached, hub or not
ClientsAfter_AnyOtherEndpoint(clients, index, w) ==
    IF /\ ~Skipped(index, w)
       /\ Lookup(index, w.uid).is_meshed
       /\ w.n1 \in DOMAIN clients
    THEN [clients EXCEPT ![w.n1] = Append(@, ClientOfLink(index, w))]
    ELSE clients

ClientsAfter(clients, index, w) ==
    IF IsClientLink(index, w) /\ w.n1 \in DOMAIN clients
    THEN [clients EXCEPT ![w.n1] = Append(@, ClientOfLink(index, w))]
    ELSE clients

ParentTuple(parent_uid, w) ==
    [parent_uid |-> parent_uid, link_type |-> w.iface_type,
     link_state |-> w.state, iface_name |-> w.iface_name,
     cur_rx |-> w.cur_rx, cur_tx |-> w.cur_tx,
     max_rx |-> w.max_rx, max_tx |-> w.max_tx]

\* variant: the test without .upper()
IsUplink_CaseSensitive(iface_name) == Contains(iface_name, S_UPLINK)

\* "UPLINK" in iface_name.upper()
IsUplink(iface_name) == Contains(Upper(iface_name), S_UPLINK)

\* variant: between a master and a slave the owner of the link is the parent
Relation_OwnerIsParent(index, w) ==
    LET n1_role == Lookup(index, w.uid).mesh_role
        n2_role == Lookup(index, w.n2).mesh_role
    IN  IF {n1_role, n2_role} = {"master", "slave"}
        THEN Some([child |-> w.n2, parent |-> w.n1])
        ELSE IF n1_role = "slave" /\ n2_role = "slave"
        THEN IF IsUplink(w.iface_name)
             THEN Some([child |-> w.n1, parent |-> w.n2])
             ELSE Some([child |-> w.n2, parent |-> w.n1])
        ELSE None

\* variant: between two slaves the owner is the child, marker or not
Relation_OwnerIsChild(index, w) ==
    LET n1_role == Lookup(index, w.uid).mesh_role
        n2_role == Lookup(index, w.n2).mesh_role
    IN  IF n1_role = "master" /\ n2_role = "slave"
        THEN Some([child |-> w.n2, parent |-> w.n1])
        ELSE IF n1_role = "slave" /\ n2_role = "master"
        THEN Some([child |-> w.n1, parent |-> w.n2])
        ELSE IF n1_role = "slave" /\ n2_role = "slave"
        THEN Some([child |-> w.n1, parent |-> w.n2])
        ELSE None

\* variant: the role of the second endpoint of a master's link is not tested
Relation_MasterOverAny(index, w) ==
    LET n1_role == Lookup(index, w.uid).mesh_role
        n2_role == Lookup(index, w.n2).mesh_role
    IN  IF n1_role = "master"
        THEN Some([child |-> w.n2, parent |-> w.n1])
        ELSE IF n1_role = "slave" /\ n2_role = "master"
        THEN Some([child |-> w.n1, parent |-> w.n2])
        ELSE IF n1_role = "slave" /\ n2_role = "slave"
        THEN IF IsUplink(w.iface_name)
             THEN Some([child |-> w.n1, parent |-> w.n2])
             ELSE Some([child |-> w.n2, parent |-> w.n1])
        ELSE None

\* the (child, parent) pair a backbone link stands for: None when the roles
\* give none
Relation(index, w) ==
    LET n1_role == Lookup(index, w.uid).mesh_role
        n2_role == Lookup(index, w.n2).mesh_role
    IN  IF n1_role = "master" /\ n2_role = "slave"
        THEN Some([child |-> w.n2, parent |-> w.n1])
        ELSE IF n1_role = "slave" /\ n2_role = "master"
        THEN Some([child |-> w.n1, parent |-> w.n2])
        ELSE IF n1_role = "slave" /\ n2_role = "slave"
        THEN IF IsUplink(w.iface_name)
             THEN Some([child |-> w.n1, parent |-> w.n2])
             ELSE Some([child |-> w.n2, parent |-> w.n1])
        ELSE None

\* variant: the assignment without the "not in" guard
RecordOnce_Overwrite(parent, child, tuple) ==
    [u \in DOMAIN parent \cup {child} |->
        IF u = child THEN tuple ELSE parent[u]]

\* if child not in mesh_node_parent: mesh_node_parent[child] = tuple
RecordOnce(parent, child, tuple) ==
    IF child \in DOMAIN parent THEN parent ELSE parent @@ (child :> tuple)

\* variant: the disconnected-link filter of _find_parent_link applied here
ParentAfter_ConnectedOnly(parent, index, w) ==
    IF /\ IsBackboneLink(index, w)
       /\ Relation(index, w) # None
       /\ w.state = "CONNECTED"
    THEN LET r == Relation(index, w)[1]
         IN  RecordOnce(parent, r.child, ParentTuple(r.parent, w))
    ELSE parent

\* variant: a link that reports no maximum rate is passed over
ParentAfter_ReportedOnly(parent, index, w) ==
    IF /\ IsBackboneLink(index, w)
       /\ Relation(index, w) # None
       /\ w.max_rx > 0
    THEN LET r == Relation(index, w)[1]
         IN  RecordOnce(parent, r.child, ParentTuple(r.parent, w))
    ELSE parent

ParentAfter(parent, index, w) ==
    IF IsBackboneLink(index, w) /\ Relation(index, w) # None
    THEN LET r == Relation(index, w)[1]
         IN  RecordOnce(parent, r.child, ParentTuple(r.parent, w))
    ELSE parent

-----------------------------------------------------------------------------
(* _find_parent_link: the helper kept beside the parser, which calls it
   nowhere *)

NoParentLink == [parent_uid |-> None, link_type |-> "", link_state |-> "",
                 iface_name |-> <<>>]

RECURSIVE FirstParentLink(_, _, _)
FirstParentLink(links, node_uid, index) ==
    IF links = <<>> THEN NoParentLink
    ELSE LET w == Head(links)
             other_uid == IF w.n2 = node_uid THEN Some(w.n1)
                          ELSE IF w.n1 = node_uid THEN Some(w.n2)
                          ELSE None
         IN  IF /\ w.state = "CONNECTED"
                /\ other_uid # None
                /\ other_uid[1] # <<>>
                /\ Has(index, other_uid[1])
                /\ Lookup(index, other_uid[1]).is_meshed
             THEN [parent_uid |-> other_uid, link_type |-> w.iface_type,
                   link_state |-> w.state, iface_name |-> w.iface_name]
             ELSE FirstParentLink(Tail(links), node_uid, index)

FindParentLink(node_uid, index) ==
    IF ~Has(index, node_uid) THEN NoParentLink
    ELSE FirstParentLink(LinksOfNode(Lookup(index, node_uid)), node_uid, index)

-----------------------------------------------------------------------------
(* hand-back of the accumulators, pass 4 and the sort *)

WithClients(node, clients) ==
    IF node.uid \in DOMAIN clients
    THEN [node EXCEPT !.clients = clients[node.uid]]
    ELSE node

WithParent(node, parent) ==
    IF node.uid \in DOMAIN parent
    THEN LET t == parent[node.uid]
         IN  [node EXCEPT !.parent_uid = Some(t.parent_uid),
                          !.parent_link_type = t.link_type,
                          !.parent_link_state = t.link_state,
                          !.parent_interface_name = t.iface_name,
                          !.parent_cur_rx_kbps = t.cur_rx,
                          !.parent_cur_tx_kbps = t.cur_tx,
                          !.parent_max_rx_kbps = t.max_rx,
                          !.parent_max_tx_kbps = t.max_tx]
    ELSE node

\* variant: only the clients attached through a CONNECTED link count
AssignedClientUids_ConnectedOnly(clients) ==
    UNION {{clients[h][i].uid :
                i \in {j \in DOMAIN clients[h] :
                          clients[h][j].connection_state = "CONNECTED"}} :
           h \in DOMAIN clients}

\* {c.uid for clients in mesh_node_clients.values() for c in clients}
AssignedClientUids(clients) ==
    UNION {{clients[h][i].uid : i \in DOMAIN clients[h]} : h \in DOMAIN clients}

\* variant: every non-hub node, assigned or not
Unassigned_All(index, clients) ==
    LET Left(entry) == ~entry.is_meshed
        left == SelectSeq(index, Left)
    IN  [i \in DOMAIN left |->
            ClientDevice(left[i].uid, left[i].name, left[i].mac, "", "unknown",
                         0, 0, 0, 0, <<>>)]

Unassigned(index, clients) ==
    LET Left(entry) == ~entry.is_meshed
                       /\ entry.uid \notin AssignedClientUids(clients)
        left == SelectSeq(index, Left)
    IN  [i \in DOMAIN left |->
            ClientDevice(left[i].uid, left[i].name, left[i].mac, "", "unknown",
                         0, 0, 0, 0, <<>>)]

\* variant: key = name
SortKeyLess_NameOnly(a, b) == StrLess(a.name, b.name)

\* key(a) < key(b) for key = (0 if role == "master" else 1, name)
SortKeyLess(a, b) ==
    LET ka == IF a.role = "master" THEN 0 ELSE 1
        kb == IF b.role = "master" THEN 0 ELSE 1
    IN  ka < kb \/ (ka = kb /\ StrLess(a.name, b.name))

\* list.sort is stable: x goes before the first element that is greater
InsertSorted(sorted, x) ==
    IF \E i \in DOMAIN sorted : SortKeyLess(x, sorted[i])
    THEN LET p == CHOOSE i \in DOMAIN sorted :
                     /\ SortKeyLess(x, sorted[i])
                     /\ \A j \in 1..(i - 1) : ~SortKeyLess(x, sorted[j])
         IN  SubSeq(sorted, 1, p - 1) \o <<x>> \o SubSeq(sorted, p, Len(sorted))
    ELSE Append(sorted, x)

RECURSIVE SortNodes(_, _)
SortNodes(sorted, rest) ==
    IF rest = <<>> THEN sorted
    ELSE SortNodes(InsertSorted(sorted, Head(rest)), Tail(rest))

\* variant: the raw field left at its default, an empty dict
MeshTopology_RawOmitted(snapshot, index, stubs, clients, parent) ==
    [schema_version |-> Get(snapshot, "schema_version", "unknown"),
     mesh_nodes |->
        SortNodes(<<>>, [i \in DOMAIN stubs |->
                            WithParent(WithClients(stubs[i], clients), parent)]),
     unassigned_clients |-> Unassigned(index, clients),
     raw |-> EmptyDict,
     built |-> TRUE]

MeshTopology(snapshot, index, stubs, clients, parent) ==
    [schema_version |-> Get(snapshot, "schema_version", "unknown"),
     mesh_nodes |->
        SortNodes(<<>>, [i \in DOMAIN stubs |->
                            WithParent(WithClients(stubs[i], clients), parent)]),
     unassigned_clients |-> Unassigned(index, clients),
     raw |-> snapshot,
     built |-> TRUE]

(* parse_mesh_topology as one function of the snapshot *)

RECURSIVE WalkLinks(_, _, _)
WalkLinks(acc, index, links) ==
    IF links = <<>> THEN acc
    ELSE WalkLinks([clients |-> ClientsAfter(acc.clients, index, Head(links)),
                    parent |-> ParentAfter(acc.parent, index, Head(links))],
                   index, Tail(links))

ParseMeshTopology(snapshot) ==
    LET index == IndexNodes(<<>>, Get(snapshot, "nodes", <<>>))
        acc == WalkLinks([clients |-> [u \in HubUids(index) |-> <<>>],
                          parent |-> <<>>],
                         index, WalkOrder(index))
    IN  MeshTopology(snapshot, index, MeshStubs(index), acc.clients, acc.parent)

-----------------------------------------------------------------------------
(* enrich_with_host_info *)

NameLimit == 20     \* len(client.name) > 20

HostMac(host) == Get(host, "mac", <<>>)

\* host.get("mac", "").upper() on a host whose mac is None raises
HostsRaise(hosts) ==
    \E i \in DOMAIN hosts : HostMac(hosts[i]) = Null

\* the loop that fills mac_to_host: a later host of the same key replaces
\* the earlier one, a host with an empty mac is left out
RECURSIVE MacToHost(_, _)
MacToHost(mac_to_host, hosts) ==
    IF hosts = <<>> THEN mac_to_host
    ELSE LET host == Head(hosts)
             mac == Upper(HostMac(host))
         IN  MacToHost(IF mac # <<>>
                       THEN [m \in DOMAIN mac_to_host \cup {mac} |->
                                IF m = mac THEN host ELSE mac_to_host[m]]
                       ELSE mac_to_host,
                       Tail(hosts))

\* variant: the name is also replaced when it is exactly NameLimit long
EnrichClient_AtLimit(mac_to_host, client) ==
    IF Upper(client.mac) \in DOMAIN mac_to_host
    THEN LET host == mac_to_host[Upper(client.mac)]
             name_from_host == Get(host, "name", <<>>)
         IN  [client EXCEPT
                 !.ip = IF "ip" \in DOMAIN host THEN Some(host.ip) ELSE None,
                 !.name = IF /\ name_from_host # <<>>
                             /\ (client.name = <<>>
                                   \/ Len(client.name) >= NameLimit)
                          THEN name_from_host ELSE @]
    ELSE client

\* variant: the lookup with the client's address as written
EnrichClient_ExactMac(mac_to_host, client) ==
    IF client.mac \in DOMAIN mac_to_host
    THEN LET host == mac_to_host[client.mac]
             name_from_host == Get(host, "name", <<>>)
         IN  [client EXCEPT
                 !.ip = IF "ip" \in DOMAIN host THEN Some(host.ip) ELSE None,
                 !.name = IF /\ name_from_host # <<>>
                             /\ (client.name = <<>>
                                   \/ Len(client.name) > NameLimit)
                          THEN name_from_host ELSE @]
    ELSE client

\* variant: the client's address is stored back in upper case
EnrichClient_MacNormalised(mac_to_host, client) ==
    IF Upper(client.mac) \in DOMAIN mac_to_host
    THEN LET host == mac_to_host[Upper(client.mac)]
             name_from_host == Get(host, "name", <<>>)
         IN  [client EXCEPT
                 !.mac = Upper(client.mac),
                 !.ip = IF "ip" \in DOMAIN host THEN Some(host.ip) ELSE None,
                 !.name = IF /\ name_from_host # <<>>
                             /\ (client.name = <<>>
                                   \/ Len(client.name) > NameLimit)
                          THEN name_from_host ELSE @]
    ELSE client

\* variant: the host's name is put in front of the client's name
EnrichClient_NameInFront(mac_to_host, client) ==
    IF Upper(client.mac) \in DOMAIN mac_to_host
    THEN LET host == mac_to_host[Upper(client.mac)]
             name_from_host == Get(host, "name", <<>>)
         IN  [client EXCEPT
                 !.ip = IF "ip" \in DOMAIN host THEN Some(host.ip) ELSE None,
                 !.name = IF /\ name_from_host # <<>>
                             /\ (client.name = <<>>
                                   \/ Len(client.name) > NameLimit)
                          THEN name_from_host \o @ ELSE @]
    ELSE client

\* _enrich_client, for a client whose mac is a str
EnrichClient(mac_to_host, client) ==
    IF Upper(client.mac) \in DOMAIN mac_to_host
    THEN LET host == mac_to_host[Upper(client.mac)]
             name_from_host == Get(host, "name", <<>>)
         IN  [client EXCEPT
                 !.ip = IF "ip" \in DOMAIN host THEN Some(host.ip) ELSE None,
                 !.name = IF /\ name_from_host # <<>>
                             /\ (client.name = <<>>
                                   \/ Len(client.name) > NameLimit)
                          THEN name_from_host ELSE @]
    ELSE client

\* _enrich_client over a list, in place and in order: client.mac.upper()
\* raises on a client whose mac is None, and the rest stays as it was
RECURSIVE EnrichClients(_, _)
EnrichClients(mac_to_host, clients) ==
    IF clients = <<>> THEN [clients |-> <<>>, raised |-> FALSE]
    ELSE IF Head(clients).mac = Null THEN [clients |-> clients, raised |-> TRUE]
    ELSE LET rest == EnrichClients(mac_to_host, Tail(clients))
         IN  [clients |-> <<EnrichClient(mac_to_host, Head(clients))>>
                              \o rest.clients,
              raised |-> rest.raised]

\* for mesh_node in topology.mesh_nodes: for client in mesh_node.clients
RECURSIVE EnrichNodes(_, _)
EnrichNodes(mac_to_host, nodes) ==
    IF nodes = <<>> THEN [nodes |-> <<>>, raised |-> FALSE]
    ELSE LET r == EnrichClients(mac_to_host, Head(nodes).clients)
             node == [Head(nodes) EXCEPT !.clients = r.clients]
         IN  IF r.raised
             THEN [nodes |-> <<node>> \o Tail(nodes), raised |-> TRUE]
             ELSE LET rest == EnrichNodes(mac_to_host, Tail(nodes))
                  IN  [nodes |-> <<node>> \o rest.nodes, raised |-> rest.raised]

\* the topology as the call leaves it, and whether the call raised
EnrichWithHostInfo(t, hosts) ==
    IF HostsRaise(hosts) THEN [topology |-> t, raised |-> TRUE]
    ELSE LET mac_to_host == MacToHost(<<>>, hosts)
             n == EnrichNodes(mac_to_host, t.mesh_nodes)
             u == EnrichClients(mac_to_host, t.unassigned_clients)
         IN  IF n.raised
             THEN [topology |-> [t EXCEPT !.mesh_nodes = n.nodes],
                   raised |-> TRUE]
             ELSE [topology |-> [t EXCEPT !.mesh_nodes = n.nodes,
                                          !.unassigned_clients = u.clients],
                   raised |-> u.raised]

-----------------------------------------------------------------------------
(* FritzMeshFetcher.fetch after the parse: the try block and the return *)

NotCalled == [status |-> "none"]
HostsFailed == [status |-> "raised"]
HostsReturned(hosts) == [status |-> "ok", hosts |-> hosts]

\* variant: no except clause, the exception leaves fetch
TryEnrich_Uncaught(t, outcome) ==
    IF outcome = HostsFailed THEN [topology |-> t, raised |-> TRUE]
    ELSE EnrichWithHostInfo(t, outcome.hosts)

\* try: hosts_info = ...; enrich_with_host_info(...) except Exception: warn
TryEnrich(t, outcome) ==
    IF outcome = HostsFailed THEN [topology |-> t, raised |-> FALSE]
    ELSE [topology |-> EnrichWithHostInfo(t, outcome.hosts).topology,
          raised |-> FALSE]

-----------------------------------------------------------------------------
(* FritzMeshCoordinator._async_update_data: clients_by_mac *)

\* the assignments clients_by_mac[client.mac] = (client, node) in the order
\* the two loops make them; a client without mac makes none
ClientWrites(t) ==
    LET Keyed(c) == c.mac # <<>> /\ c.mac # Null
        OfNode(h) ==
            LET cs == SelectSeq(t.mesh_nodes[h].clients, Keyed)
            IN  [k \in DOMAIN cs |->
                    [client |-> cs[k], node |-> Some(t.mesh_nodes[h])]]
        un == SelectSeq(t.unassigned_clients, Keyed)
    IN  Concat([h \in DOMAIN t.mesh_nodes |-> OfNode(h)])
        \o [k \in DOMAIN un |-> [client |-> un[k], node |-> None]]

\* the dict after them: per mac the last assignment
ClientsByMac(t) ==
    LET w == ClientWrites(t)
    IN  [m \in {w[k].client.mac : k \in DOMAIN w} |->
            w[CHOOSE k \in DOMAIN w :
                 /\ w[k].client.mac = m
                 /\ \A j \in DOMAIN w : w[j].client.mac = m => j <= k]]

\* {node.mac: node for node in topology.mesh_nodes if node.mac}
MeshNodesByMac(t) ==
    LET Keyed(h) == t.mesh_nodes[h].mac # <<>> /\ t.mesh_nodes[h].mac # Null
        keyed == {h \in DOMAIN t.mesh_nodes : Keyed(h)}
    IN  [m \in {t.mesh_nodes[h].mac : h \in keyed} |->
            t.mesh_nodes[CHOOSE h \in keyed :
                            /\ t.mesh_nodes[h].mac = m
                            /\ \A j \in keyed : t.mesh_nodes[j].mac = m => j <= h]]

FritzMeshData(t) ==
    [mesh_nodes_by_mac |-> MeshNodesByMac(t),
     clients_by_mac |-> ClientsByMac(t),
     built |-> TRUE]

-----------------------------------------------------------------------------
(* sensor.py and binary_sensor.py: async_setup_entry and the listener
   _async_add_new_entities *)

Listeners == {"sensor", "binary_sensor"}

\* an entity, by platform and by the mac and key of its unique_id
Entity(platform, mac, key) == [platform |-> platform, mac |-> mac, key |-> key]

TopologySensor == Entity("sensor", <<>>, "topology")

\* the five sensors of a mesh node, the two sensors and the binary sensor of
\* a client
NodeSensors(mac) ==
    {Entity("sensor", mac, key) :
        key \in {"connected_devices", "wifi_devices", "lan_devices",
                 "current_rx_rate", "current_tx_rate"}}

ClientSensors(mac) ==
    {Entity("sensor", mac, key) : key \in {"mesh_node", "connection"}}

ClientBinarySensors(mac) == {Entity("binary_sensor", mac, "connected")}

\* the keys of the dict for which "mac not in known" holds
NewMacs(by_mac, known) == {mac \in DOMAIN by_mac : mac \notin known}

\* variant: the known set is replaced by the macs of the latest data
KnownAfter_LatestOnly(by_mac, known) == DOMAIN by_mac

\* known after known.add(mac) for each of them
KnownAfter(by_mac, known) == known \cup DOMAIN by_mac

\* async_add_entities(new_entities): each entity of the list once more
Added(bag, new_entities) ==
    [e \in DOMAIN bag \cup new_entities |->
        (IF e \in DOMAIN bag THEN bag[e] ELSE 0)
        + (IF e \in new_entities THEN 1 ELSE 0)]

-----------------------------------------------------------------------------
(* Snapshots the Fritz!Box may hand over *)

MaxNodes == 3       \* longest node list of the free-order snapshots
MaxLinks == 2       \* most link records of the link-walk snapshots
MaxSparseNodes == 3 \* longest node list of the sparse snapshots
MaxHosts == 2       \* longest host list
MaxInvocations == 2 \* calls of parse_mesh_topology in a row
MaxPairLinks == 3   \* most link records of the reordered snapshots
MaxRefreshes == 3   \* refreshes of the coordinator in a row

U1 == <<117, 49>>                                         \* "u1"
U2 == <<117, 50>>                                         \* "u2"
U3 == <<117, 51>>                                         \* "u3"
U4 == <<117, 52>>                                         \* "u4"
U9 == <<117, 57>>                                         \* "u9", never a node

N_A == <<65>>                                             \* "A"
N_B == <<66>>                                             \* "B"
N_a == <<97>>                                             \* "a"
N_b == <<98>>                                             \* "b"
N_c == <<99>>                                             \* "c"

MacOf(uid) == <<65, 65, 58, 48, uid[2]>>                  \* "AA:01", ...
LowerMacOf(uid) == <<97, 97, 58, 48, uid[2]>>             \* "aa:01", ...
NoMac == <<>>

NameAtLimit == [i \in 1..NameLimit |-> 110]               \* "nnn...n"
NameOverLimit == [i \in 1..(NameLimit + 1) |-> 110]

IP_A == <<49, 48, 46, 49>>                                \* "10.1"
IP_B == <<49, 48, 46, 50>>                                \* "10.2"

I_AP == [type |-> "WLAN", name |-> <<65, 80, 58, 53, 71, 58, 48>>]   \* "AP:5G:0"
I_LAN == [type |-> "LAN", name |-> <<76, 65, 78, 58, 49>>]           \* "LAN:1"
I_UPLINK == [type |-> "WLAN",
             name |-> <<85, 80, 76, 73, 78, 75, 58, 53, 71>>]        \* "UPLINK:5G"
I_UpLink == [type |-> "LAN",
             name |-> <<108, 97, 110, 58, 85, 112, 76, 105, 110, 107>>] \* "lan:UpLink"

\* the interfaces of a node come in this order
IfaceOrder == <<I_AP, I_LAN, I_UPLINK, I_UpLink>>

Link(n1, n2, state, r) ==
    [node_1_uid |-> n1, node_2_uid |-> n2, state |-> state,
     cur_data_rate_rx |-> r[1], cur_data_rate_tx |-> r[2],
     max_data_rate_rx |-> r[3], max_data_rate_tx |-> r[4]]

\* a link record and the node and interface that hold it
Held(holder, iface, link) == [holder |-> holder, iface |-> iface, link |-> link]

Node(uid, name, mac, meshed, role, ifaces) ==
    [uid |-> uid, device_name |-> name, device_mac_address |-> mac,
     is_meshed |-> meshed, mesh_role |-> role, node_interfaces |-> ifaces]

Snapshot(nodes) == [schema_version |-> "1.8", nodes |-> nodes]

\* the interfaces of holder, each with the records of held that it carries
IfacesOf(holder, held) ==
    LET LinksOn(iface) ==
            LET On(h) == h.holder = holder /\ h.iface = iface
                on == SelectSeq(held, On)
            IN  [k \in DOMAIN on |-> on[k].link]
        Used(iface) == LinksOn(iface) # <<>>
        used == SelectSeq(IfaceOrder, Used)
    IN  [j \in DOMAIN used |->
            [type |-> used[j].type, name |-> used[j].name,
             node_links |-> LinksOn(used[j])]]

SeqsUpTo(S, n) == UNION {[1..k -> S] : k \in 0..n}

Kinds == {[meshed |-> TRUE, role |-> "master"],
          [meshed |-> TRUE, role |-> "slave"],
          [meshed |-> TRUE, role |-> "unknown"],
          [meshed |-> FALSE, role |-> "unknown"]}

(* free order: any list of up to MaxNodes of these nodes, no links *)
NodePool ==
    {Node(U1, N_b, MacOf(U1), TRUE, "master", <<>>),
     Node(U2, N_B, MacOf(U2), TRUE, "slave", <<>>),
     Node(U3, N_a, MacOf(U3), TRUE, "slave", <<>>),
     Node(U2, N_A, MacOf(U2), TRUE, "unknown", <<>>),
     Node(U3, N_c, MacOf(U3), FALSE, "unknown", <<>>),
     Node(U1, N_a, MacOf(U1), TRUE, "slave", <<>>),
     Node(U2, N_a, MacOf(U2), TRUE, "master", <<>>),
     Node(U1, N_B, NoMac, FALSE, "unknown", <<>>)}

OrderSnapshots == {Snapshot(nodes) : nodes \in SeqsUpTo(NodePool, MaxNodes)}

(* link walk: u1, u2, u3 of any kind, with up to MaxLinks of these records *)
LinkPool ==
    {Held(U1, I_AP, Link(U1, U2, "CONNECTED", <<11, 12, 13, 14>>)),
     Held(U1, I_LAN, Link(U1, U2, "DISCONNECTED", <<0, 0, 0, 0>>)),
     Held(U1, I_AP, Link(U1, U3, "CONNECTED", <<21, 22, 23, 24>>)),
     Held(U2, I_AP, Link(U2, U3, "CONNECTED", <<31, 32, 33, 34>>)),
     Held(U2, I_UpLink, Link(U2, U1, "CONNECTED", <<41, 42, 43, 44>>)),
     Held(U2, I_LAN, Link(U2, U1, "DISCONNECTED", <<51, 52, 53, 54>>)),
     Held(U3, I_UPLINK, Link(U3, U2, "DISCONNECTED", <<61, 62, 63, 64>>)),
     Held(U3, I_LAN, Link(U3, U1, "CONNECTED", <<71, 72, 73, 74>>)),
     Held(U2, I_AP, Link(U1, U2, "CONNECTED", <<11, 12, 13, 14>>)),
     Held(U1, I_AP, Link(U1, U9, "CONNECTED", <<81, 82, 83, 84>>))}

WalkNodes(k1, k2, k3, held) ==
    <<Node(U1, N_b, MacOf(U1), k1.meshed, k1.role, IfacesOf(U1, held)),
      Node(U2, N_B, MacOf(U2), k2.meshed, k2.role, IfacesOf(U2, held)),
      Node(U3, N_a, MacOf(U3), k3.meshed, k3.role, IfacesOf(U3, held))>>

WalkSnapshots ==
    {Snapshot(WalkNodes(k1, k2, k3, held)) :
        k1 \in Kinds, k2 \in Kinds, k3 \in Kinds,
        held \in SeqsUpTo(LinkPool, MaxLinks)}

(* the end-to-end scenario: master M = u1 with wireless client C1 = u3 and a
   wired link to slave S = u2, which has wireless client C2 = u4; the nodes in
   any order, with or without the copy of each link under its second endpoint *)
ScenarioHeld(mirrored) ==
    <<Held(U1, I_AP, Link(U1, U3, "CONNECTED", <<11, 12, 13, 14>>)),
      Held(U1, I_LAN, Link(U1, U2, "CONNECTED", <<21, 22, 23, 24>>)),
      Held(U2, I_AP, Link(U2, U4, "CONNECTED", <<31, 32, 33, 34>>))>>
    \o (IF mirrored
        THEN <<Held(U3, I_AP, Link(U1, U3, "CONNECTED", <<11, 12, 13, 14>>)),
               Held(U2, I_LAN, Link(U1, U2, "CONNECTED", <<21, 22, 23, 24>>)),
               Held(U4, I_AP, Link(U2, U4, "CONNECTED", <<31, 32, 33, 34>>))>>
        ELSE <<>>)

ScenarioNodes(mirrored) ==
    LET held == ScenarioHeld(mirrored)
    IN  <<Node(U1, N_b, MacOf(U1), TRUE, "master", IfacesOf(U1, held)),
          Node(U2, N_B, MacOf(U2), TRUE, "slave", IfacesOf(U2, held)),
          Node(U3, N_c, MacOf(U3), FALSE, "unknown", IfacesOf(U3, held)),
          Node(U4, N_a, MacOf(U4), FALSE, "unknown", IfacesOf(U4, held))>>

Permutations4 == {p \in [1..4 -> 1..4] : \A i, j \in 1..4 : p[i] = p[j] => i = j}

ScenarioSnapshots ==
    {Snapshot([i \in 1..4 |-> ScenarioNodes(mirrored)[p[i]]]) :
        p \in Permutations4, mirrored \in BOOLEAN}

(* sparse snapshots: dicts without the keys the parser reads *)
SparsePool ==
    {EmptyDict,
     [uid |-> U2],
     [uid |-> U3, is_meshed |-> TRUE, mesh_role |-> "slave",
      node_interfaces |-> <<EmptyDict>>],
     [uid |-> U1, is_meshed |-> TRUE, mesh_role |-> "master",
      node_interfaces |->
         <<[node_links |-> <<[node_1_uid |-> U1, node_2_uid |-> U2],
                             [node_1_uid |-> U1, node_2_uid |-> U3]>>]>>],
     [is_meshed |-> TRUE, node_interfaces |-> <<[node_links |-> <<EmptyDict>>]>>]}

SparseSnapshots ==
    {EmptyDict, [schema_version |-> "1.8"]}
    \cup {[nodes |-> nodes] : nodes \in SeqsUpTo(SparsePool, MaxSparseNodes)}

Snapshots ==
    OrderSnapshots \cup WalkSnapshots \cup ScenarioSnapshots
    \cup SparseSnapshots

(* fetch: hub u1 with a link to client u2, and client u3 that no link names;
   the clients' names are empty, short, NameLimit long or longer, their
   addresses upper case, lower case, empty or None *)
FetchNodes(name2, mac2, name3, mac3) ==
    <<Node(U1, N_b, MacOf(U1), TRUE, "master",
           IfacesOf(U1, <<Held(U1, I_AP,
                               Link(U1, U2, "CONNECTED", <<11, 12, 13, 14>>))>>)),
      Node(U2, name2, mac2, FALSE, "unknown", <<>>),
      Node(U3, name3, mac3, FALSE, "unknown", <<>>)>>

FetchSnapshots ==
    {Snapshot(FetchNodes(name2, mac2, name3, mac3)) :
        name2 \in {<<>>, N_c, NameAtLimit, NameOverLimit},
        mac2 \in {MacOf(U2), LowerMacOf(U2)},
        name3 \in {<<>>, NameOverLimit},
        mac3 \in {MacOf(U3), NoMac, Null}}
    \cup {[nodes |-> FetchNodes(NameOverLimit, MacOf(U2), <<>>, MacOf(U3))]}

(* what fh.get_hosts_info() may return: up to MaxHosts of these hosts *)
HostPool ==
    {[mac |-> MacOf(U2), ip |-> IP_A, name |-> N_A],
     [mac |-> LowerMacOf(U2), ip |-> IP_B, name |-> <<>>],
     [mac |-> MacOf(U2), name |-> N_B],
     [mac |-> MacOf(U3), ip |-> IP_A],
     [mac |-> MacOf(U3), ip |-> IP_B, name |-> N_b],
     [mac |-> NoMac, ip |-> IP_B, name |-> N_a],
     [mac |-> Null, ip |-> IP_A, name |-> N_A]}

HostLists == SeqsUpTo(HostPool, MaxHosts)

HostOutcomes == {HostsFailed} \cup {HostsReturned(hosts) : hosts \in HostLists}

(* repeated parses: master u1, slave u2 and client u3, with up to MaxLinks
   of these two records *)
ReparsePool ==
    {Held(U1, I_AP, Link(U1, U2, "CONNECTED", <<11, 12, 13, 14>>)),
     Held(U1, I_AP, Link(U1, U3, "CONNECTED", <<21, 22, 23, 24>>))}

ReparseSnapshots ==
    {Snapshot(WalkNodes([meshed |-> TRUE, role |-> "master"],
                        [meshed |-> TRUE, role |-> "slave"],
                        [meshed |-> FALSE, role |-> "unknown"], held)) :
        held \in SeqsUpTo(ReparsePool, MaxLinks)}

(* reordered link lists: slave u1 with up to MaxPairLinks of these records,
   most of them on its uplink interface, beside hubs u2 and u3 *)
ReorderPool ==
    {Held(U1, I_UPLINK, Link(U1, U2, "CONNECTED", <<11, 12, 13, 14>>)),
     Held(U1, I_UPLINK, Link(U1, U2, "DISCONNECTED", <<0, 0, 0, 0>>)),
     Held(U1, I_UPLINK, Link(U2, U1, "CONNECTED", <<21, 22, 23, 24>>)),
     Held(U1, I_UPLINK, Link(U1, U3, "CONNECTED", <<31, 32, 33, 34>>)),
     Held(U1, I_AP, Link(U1, U2, "CONNECTED", <<41, 42, 43, 44>>))}

ReorderSnapshots ==
    {Snapshot(WalkNodes([meshed |-> TRUE, role |-> "slave"],
                        [meshed |-> TRUE, role |-> "slave"],
                        [meshed |-> TRUE, role |-> role3], held)) :
        role3 \in {"master", "slave"},
        held \in SeqsUpTo(ReorderPool, MaxPairLinks)}

(* refreshes: what one call of FritzMeshFetcher.fetch may see.  Hub u1 alone;
   u1 with client u2 attached and client u3 unassigned; u1 and hub u3 both
   with a link to client u2; u1 with client u2 attached, an unassigned node
   u4 with u2's address and a client u3 without address; a hub without
   address with a client whose address is None and an unassigned client with
   a lower-case address *)
RefreshNodes ==
    {<<Node(U1, N_b, MacOf(U1), TRUE, "master", <<>>)>>,
     <<Node(U1, N_b, MacOf(U1), TRUE, "master",
            IfacesOf(U1, <<Held(U1, I_AP,
                                Link(U1, U2, "CONNECTED", <<11, 12, 13, 14>>))>>)),
       Node(U2, N_c, MacOf(U2), FALSE, "unknown", <<>>),
       Node(U3, N_a, MacOf(U3), FALSE, "unknown", <<>>)>>,
     <<Node(U1, N_b, MacOf(U1), TRUE, "master",
            IfacesOf(U1, <<Held(U1, I_LAN,
                                Link(U1, U2, "DISCONNECTED", <<0, 0, 0, 0>>))>>)),
       Node(U2, N_c, MacOf(U2), FALSE, "unknown", <<>>),
       Node(U3, N_a, MacOf(U3), TRUE, "slave",
            IfacesOf(U3, <<Held(U3, I_AP,
                                Link(U3, U2, "CONNECTED", <<21, 22, 23, 24>>))>>))>>,
     <<Node(U1, N_b, MacOf(U1), TRUE, "master",
            IfacesOf(U1, <<Held(U1, I_AP,
                                Link(U1, U2, "CONNECTED", <<11, 12, 13, 14>>)),
                           Held(U1, I_AP,
                                Link(U1, U3, "CONNECTED", <<31, 32, 33, 34>>))>>)),
       Node(U2, N_c, MacOf(U2), FALSE, "unknown", <<>>),
       Node(U3, N_a, NoMac, FALSE, "unknown", <<>>),
       Node(U4, N_A, MacOf(U2), FALSE, "unknown", <<>>)>>,
     <<Node(U1, N_b, NoMac, TRUE, "master",
            IfacesOf(U1, <<Held(U1, I_AP,
                                Link(U1, U2, "CONNECTED", <<11, 12, 13, 14>>))>>)),
       Node(U2, N_c, Null, FALSE, "unknown", <<>>),
       Node(U3, N_a, LowerMacOf(U3), FALSE, "unknown", <<>>)>>}

\* the snapshot and the outcome of the host-list call of one fetch
RefreshResults ==
    {[raw |-> Snapshot(nodes), hosts_info |-> HostsFailed] :
        nodes \in RefreshNodes}
    \cup {[raw |-> Snapshot(nodes),
           hosts_info |-> HostsReturned(<<[mac |-> MacOf(U2), ip |-> IP_A,
                                           name |-> N_A]>>)] :
            nodes \in {ns \in RefreshNodes :
                         /\ Len(ns) = 3
                         /\ ns[2].device_mac_address = MacOf(U2)
                         /\ ~ns[3].is_meshed}}

\* the places <<node, interface, link>> of the link records of a snapshot
LinkPlaces(snapshot) ==
    LET nodes == Get(snapshot, "nodes", <<>>)
        Ifaces(i) == Get(nodes[i], "node_interfaces", <<>>)
        Links(i, j) == Get(Ifaces(i)[j], "node_links", <<>>)
    IN  UNION {UNION {{<<i, j, k>> : k \in DOMAIN Links(i, j)} :
                      j \in DOMAIN Ifaces(i)} :
               i \in DOMAIN nodes}

LinkAt(snapshot, p) ==
    snapshot.nodes[p[1]].node_interfaces[p[2]].node_links[p[3]]

\* the places of the records that join a and b, in either direction
PairPlaces(snapshot, a, b) ==
    {p \in LinkPlaces(snapshot) :
        {LinkAt(snapshot, p).node_1_uid, LinkAt(snapshot, p).node_2_uid} = {a, b}}

\* the snapshot without the link record of place p
WithoutLink(snapshot, p) ==
    LET links == snapshot.nodes[p[1]].node_interfaces[p[2]].node_links
        rest == SubSeq(links, 1, p[3] - 1) \o SubSeq(links, p[3] + 1, Len(links))
    IN  [snapshot EXCEPT
            !.nodes[p[1]].node_interfaces[p[2]].node_links = rest]

Bijections(P) == {f \in [P -> P] : \A p, q \in P : f[p] = f[q] => p = q}

\* the snapshot with the record of place move[p] at every place p
Reordered(snapshot, move) ==
    LET LinksAt(i, j) ==
            LET links == snapshot.nodes[i].node_interfaces[j].node_links
            IN  [k \in DOMAIN links |->
                    IF <<i, j, k>> \in DOMAIN move
                    THEN LinkAt(snapshot, move[<<i, j, k>>])
                    ELSE links[k]]
        IfacesAt(i) ==
            LET ifaces == snapshot.nodes[i].node_interfaces
            IN  [j \in DOMAIN ifaces |->
                    [ifaces[j] EXCEPT !.node_links = LinksAt(i, j)]]
    IN  [snapshot EXCEPT
            !.nodes = [i \in DOMAIN snapshot.nodes |->
                          [snapshot.nodes[i] EXCEPT
                              !.node_interfaces = IfacesAt(i)]]]

-----------------------------------------------------------------------------
(* The passes of parse_mesh_topology as steps *)

\* coordinator.data before the first successful refresh
NoData == [built |-> FALSE]

\* no refresh has been started and no platform is set up
NotSetUp ==
    /\ data = NoData
    /\ update_failed = FALSE
    /\ pending = {}
    /\ known_node_macs = {}
    /\ known_client_macs = {}
    /\ binary_known_client_macs = {}
    /\ entities = <<>>
    /\ refreshes = 0

Init ==
    /\ raw \in Snapshots
    /\ pc = "index"
    /\ all_nodes_by_uid = <<>>
    /\ mesh_nodes_by_uid = <<>>
    /\ mesh_node_clients = <<>>
    /\ mesh_node_parent = <<>>
    /\ walk_order = <<>>
    /\ cursor = 0
    /\ topology = NoTopology
    /\ hosts_info = NotCalled
    /\ raised = FALSE
    /\ invocations = 1
    /\ earlier = <<>>
    /\ NotSetUp

\* variant: mesh_node_parent lives on between calls
Index_KeepingParents ==
    /\ pc = "index"
    /\ all_nodes_by_uid' = IndexNodes(<<>>, Get(raw, "nodes", <<>>))
    /\ mesh_nodes_by_uid' = MeshStubs(all_nodes_by_uid')
    /\ mesh_node_clients' = [u \in HubUids(all_nodes_by_uid') |-> <<>>]
    /\ walk_order' = WalkOrder(all_nodes_by_uid')
    /\ mesh_node_parent' = mesh_node_parent
    /\ cursor' = 0
    /\ pc' = "walk"
    /\ UNCHANGED <<raw, topology, hosts_info, raised, invocations, earlier,
                   coordinator_vars>>

\* passes 1 and 2
Index ==
    /\ pc = "index"
    /\ all_nodes_by_uid' = IndexNodes(<<>>, Get(raw, "nodes", <<>>))
    /\ mesh_nodes_by_uid' = MeshStubs(all_nodes_by_uid')
    /\ mesh_node_clients' = [u \in HubUids(all_nodes_by_uid') |-> <<>>]
    /\ walk_order' = WalkOrder(all_nodes_by_uid')
    /\ mesh_node_parent' = <<>>
    /\ cursor' = 0
    /\ pc' = "walk"
    /\ UNCHANGED <<raw, topology, hosts_info, raised, invocations, earlier,
                   coordinator_vars>>

\* pass 3, one link
WalkLink ==
    /\ pc = "walk"
    /\ cursor < Len(walk_order)
    /\ LET w == walk_order[cursor + 1]
       IN  /\ mesh_node_clients' =
                  ClientsAfter(mesh_node_clients, all_nodes_by_uid, w)
           /\ mesh_node_parent' =
                  ParentAfter(mesh_node_parent, all_nodes_by_uid, w)
    /\ cursor' = cursor + 1
    /\ UNCHANGED <<raw, pc, all_nodes_by_uid, mesh_nodes_by_uid, walk_order,
                   topology, hosts_info, raised, invocations, earlier,
                   coordinator_vars>>

\* the hand-back, pass 4, the sort and the return
Assemble ==
    /\ pc = "walk"
    /\ cursor = Len(walk_order)
    /\ topology' = MeshTopology(raw, all_nodes_by_uid, mesh_nodes_by_uid,
                                mesh_node_clients, mesh_node_parent)
    /\ pc' = "done"
    /\ UNCHANGED <<raw, all_nodes_by_uid, mesh_nodes_by_uid,
                   mesh_node_clients, mesh_node_parent, walk_order, cursor,
                   hosts_info, raised, invocations, earlier,
                   coordinator_vars>>

Next == Index \/ WalkLink \/ Assemble

Spec == Init /\ [][Next]_vars

\* a sparse snapshot parsed by itself; the function runs on until it returns
InitSparse ==
    /\ raw \in SparseSnapshots
    /\ pc = "index"
    /\ all_nodes_by_uid = <<>>
    /\ mesh_nodes_by_uid = <<>>
    /\ mesh_node_clients = <<>>
    /\ mesh_node_parent = <<>>
    /\ walk_order = <<>>
    /\ cursor = 0
    /\ topology = NoTopology
    /\ hosts_info = NotCalled
    /\ raised = FALSE
    /\ invocations = 1
    /\ earlier = <<>>
    /\ NotSetUp

SpecSparse == InitSparse /\ [][Next]_vars /\ WF_vars(Next)

-----------------------------------------------------------------------------
(* FritzMeshFetcher.fetch: the parse, then the host list and the enrichment *)

InitFetch ==
    /\ raw \in FetchSnapshots
    /\ pc = "index"
    /\ all_nodes_by_uid = <<>>
    /\ mesh_nodes_by_uid = <<>>
    /\ mesh_node_clients = <<>>
    /\ mesh_node_parent = <<>>
    /\ walk_order = <<>>
    /\ cursor = 0
    /\ topology = NoTopology
    /\ hosts_info = NotCalled
    /\ raised = FALSE
    /\ invocations = 1
    /\ earlier = <<>>
    /\ NotSetUp

\* fh.get_hosts_info() returns a list or raises
GetHostsInfo ==
    /\ pc = "done"
    /\ hosts_info' \in HostOutcomes
    /\ pc' = "enrich"
    /\ UNCHANGED <<raw, all_nodes_by_uid, mesh_nodes_by_uid, mesh_node_clients,
                   mesh_node_parent, walk_order, cursor, topology, raised,
                   invocations, earlier, coordinator_vars>>

\* the rest of the try block, the except clause and the return
Enrich ==
    /\ pc = "enrich"
    /\ LET r == TryEnrich(topology, hosts_info)
       IN  /\ topology' = r.topology
           /\ raised' = r.raised
    /\ pc' = "returned"
    /\ UNCHANGED <<raw, all_nodes_by_uid, mesh_nodes_by_uid, mesh_node_clients,
                   mesh_node_parent, walk_order, cursor, hosts_info,
                   invocations, earlier, coordinator_vars>>

NextFetch == Index \/ WalkLink \/ Assemble \/ GetHostsInfo \/ Enrich

SpecFetch == InitFetch /\ [][NextFetch]_vars

-----------------------------------------------------------------------------
(* enrich_with_host_info called once more on the topology that fetch
   returned, with the host list fetch got *)

EnrichAgain ==
    /\ pc = "returned"
    /\ hosts_info # HostsFailed
    /\ LET r == EnrichWithHostInfo(topology, hosts_info.hosts)
       IN  /\ topology' = r.topology
           /\ raised' = r.raised
    /\ pc' = "twice"
    /\ UNCHANGED <<raw, all_nodes_by_uid, mesh_nodes_by_uid, mesh_node_clients,
                   mesh_node_parent, walk_order, cursor, hosts_info,
                   invocations, earlier, coordinator_vars>>

NextEnrichTwice ==
    Index \/ WalkLink \/ Assemble \/ GetHostsInfo \/ Enrich \/ EnrichAgain

SpecEnrichTwice == InitFetch /\ [][NextEnrichTwice]_vars

-----------------------------------------------------------------------------
(* parse_mesh_topology called again with another snapshot: what the locals
   of the earlier call held is still in memory until the new call assigns
   them *)

InitReparse ==
    /\ raw \in ReparseSnapshots
    /\ pc = "index"
    /\ all_nodes_by_uid = <<>>
    /\ mesh_nodes_by_uid = <<>>
    /\ mesh_node_clients = <<>>
    /\ mesh_node_parent = <<>>
    /\ walk_order = <<>>
    /\ cursor = 0
    /\ topology = NoTopology
    /\ hosts_info = NotCalled
    /\ raised = FALSE
    /\ invocations = 1
    /\ earlier = <<>>
    /\ NotSetUp

Reinvoke ==
    /\ pc = "done"
    /\ invocations < MaxInvocations
    /\ raw' \in ReparseSnapshots
    /\ invocations' = invocations + 1
    /\ earlier' = Append(earlier, [raw |-> raw, topology |-> topology])
    /\ pc' = "index"
    /\ UNCHANGED <<all_nodes_by_uid, mesh_nodes_by_uid, mesh_node_clients,
                   mesh_node_parent, walk_order, cursor, topology, hosts_info,
                   raised, coordinator_vars>>

NextReparse == Index \/ WalkLink \/ Assemble \/ Reinvoke

SpecReparse == InitReparse /\ [][NextReparse]_vars

-----------------------------------------------------------------------------
(* parse_mesh_topology called on a snapshot and then on the same snapshot
   with the link records of one pair of hubs in another order *)

InitReorder ==
    /\ raw \in ReorderSnapshots
    /\ pc = "index"
    /\ all_nodes_by_uid = <<>>
    /\ mesh_nodes_by_uid = <<>>
    /\ mesh_node_clients = <<>>
    /\ mesh_node_parent = <<>>
    /\ walk_order = <<>>
    /\ cursor = 0
    /\ topology = NoTopology
    /\ hosts_info = NotCalled
    /\ raised = FALSE
    /\ invocations = 1
    /\ earlier = <<>>
    /\ NotSetUp

Reorder ==
    /\ pc = "done"
    /\ invocations = 1
    /\ \E a, b \in HubUids(all_nodes_by_uid) :
          /\ a # b
          /\ \E move \in Bijections(PairPlaces(raw, a, b)) :
                raw' = Reordered(raw, move)
    /\ invocations' = invocations + 1
    /\ earlier' = Append(earlier, [raw |-> raw, topology |-> topology])
    /\ pc' = "index"
    /\ UNCHANGED <<all_nodes_by_uid, mesh_nodes_by_uid, mesh_node_clients,
                   mesh_node_parent, walk_order, cursor, topology, hosts_info,
                   raised, coordinator_vars>>

NextReorder == Index \/ WalkLink \/ Assemble \/ Reorder

SpecReorder == InitReorder /\ [][NextReorder]_vars

-----------------------------------------------------------------------------
(* FritzMeshCoordinator: one refresh after the other.  _fetch runs in an
   executor thread and either raises or returns the topology; then
   _async_update_data goes on, and the listeners of the two platforms are
   called *)

InitRefresh ==
    /\ raw = EmptyDict
    /\ pc = "poll"
    /\ all_nodes_by_uid = <<>>
    /\ mesh_nodes_by_uid = <<>>
    /\ mesh_node_clients = <<>>
    /\ mesh_node_parent = <<>>
    /\ walk_order = <<>>
    /\ cursor = 0
    /\ topology = NoTopology
    /\ hosts_info = NotCalled
    /\ raised = FALSE
    /\ invocations = 0
    /\ earlier = <<>>
    /\ data = NoData
    /\ update_failed = FALSE
    /\ pending = {}
    /\ known_node_macs = {}
    /\ known_client_macs = {}
    /\ binary_known_client_macs = {}
    /\ entities = <<>>
    /\ refreshes = 1

\* FritzMeshFetcher.fetch raises: the connection or the topology call failed
FetchRaises ==
    /\ pc = "poll"
    /\ raised' = TRUE
    /\ topology' = NoTopology
    /\ pc' = "fetched"
    /\ UNCHANGED <<raw, all_nodes_by_uid, mesh_nodes_by_uid, mesh_node_clients,
                   mesh_node_parent, walk_order, cursor, hosts_info,
                   invocations, earlier, coordinator_vars>>

\* FritzMeshFetcher.fetch returns: the parse and the enrichment, as one step
FetchReturns ==
    /\ pc = "poll"
    /\ \E result \in RefreshResults :
          /\ raw' = result.raw
          /\ hosts_info' = result.hosts_info
          /\ topology' = TryEnrich(ParseMeshTopology(result.raw),
                                   result.hosts_info).topology
    /\ raised' = FALSE
    /\ invocations' = invocations + 1
    /\ pc' = "fetched"
    /\ UNCHANGED <<all_nodes_by_uid, mesh_nodes_by_uid, mesh_node_clients,
                   mesh_node_parent, walk_order, cursor, earlier,
                   coordinator_vars>>

\* variant: a failed fetch publishes an empty FritzMeshData
AsyncUpdateData_EmptyOnFailure ==
    /\ pc = "fetched"
    /\ data' = FritzMeshData(topology)
    /\ update_failed' = FALSE
    /\ pending' = Listeners
    /\ pc' = "notify"
    /\ UNCHANGED <<raw, all_nodes_by_uid, mesh_nodes_by_uid, mesh_node_clients,
                   mesh_node_parent, walk_order, cursor, topology, hosts_info,
                   raised, invocations, earlier, known_node_macs,
                   known_client_macs, binary_known_client_macs, entities,
                   refreshes>>

\* _async_update_data after the await: UpdateFailed, or the two dicts; the
\* platforms are set up, and their listeners called, once there is data
AsyncUpdateData ==
    /\ pc = "fetched"
    /\ IF raised
       THEN update_failed' = TRUE /\ data' = data
       ELSE update_failed' = FALSE /\ data' = FritzMeshData(topology)
    /\ pending' = IF data' = NoData THEN {} ELSE Listeners
    /\ pc' = "notify"
    /\ UNCHANGED <<raw, all_nodes_by_uid, mesh_nodes_by_uid, mesh_node_clients,
                   mesh_node_parent, walk_order, cursor, topology, hosts_info,
                   raised, invocations, earlier, known_node_macs,
                   known_client_macs, binary_known_client_macs, entities,
                   refreshes>>

\* sensor.py: _async_add_new_entities, at its first call with the topology
\* sensor that async_setup_entry adds
SensorAddNewEntities ==
    /\ pc = "notify"
    /\ "sensor" \in pending
    /\ LET new_nodes == NewMacs(data.mesh_nodes_by_mac, known_node_macs)
           new_clients == NewMacs(data.clients_by_mac, known_client_macs)
           first == IF TopologySensor \in DOMAIN entities THEN {}
                    ELSE {TopologySensor}
       IN  entities' =
               Added(entities,
                     first \cup UNION {NodeSensors(mac) : mac \in new_nodes}
                           \cup UNION {ClientSensors(mac) : mac \in new_clients})
    /\ known_node_macs' = KnownAfter(data.mesh_nodes_by_mac, known_node_macs)
    /\ known_client_macs' = KnownAfter(data.clients_by_mac, known_client_macs)
    /\ pending' = pending \ {"sensor"}
    /\ UNCHANGED <<raw, pc, all_nodes_by_uid, mesh_nodes_by_uid,
                   mesh_node_clients, mesh_node_parent, walk_order, cursor,
                   topology, hosts_info, raised, invocations, earlier, data,
                   update_failed, binary_known_client_macs, refreshes>>

\* binary_sensor.py: _async_add_new_entities
BinarySensorAddNewEntities ==
    /\ pc = "notify"
    /\ "binary_sensor" \in pending
    /\ LET new_clients ==
               NewMacs(data.clients_by_mac, binary_known_client_macs)
       IN  entities' =
               Added(entities,
                     UNION {ClientBinarySensors(mac) : mac \in new_clients})
    /\ binary_known_client_macs' =
           KnownAfter(data.clients_by_mac, binary_known_client_macs)
    /\ pending' = pending \ {"binary_sensor"}
    /\ UNCHANGED <<raw, pc, all_nodes_by_uid, mesh_nodes_by_uid,
                   mesh_node_clients, mesh_node_parent, walk_order, cursor,
                   topology, hosts_info, raised, invocations, earlier, data,
                   update_failed, known_node_macs, known_client_macs,
                   refreshes>>

\* update_interval has passed: the next refresh starts
ScheduleRefresh ==
    /\ pc = "notify"
    /\ pending = {}
    /\ refreshes < MaxRefreshes
    /\ refreshes' = refreshes + 1
    /\ earlier' = Append(earlier, [raw |-> raw, topology |-> topology,
                                   raised |-> raised])
    /\ pc' = "poll"
    /\ UNCHANGED <<raw, all_nodes_by_uid, mesh_nodes_by_uid, mesh_node_clients,
                   mesh_node_parent, walk_order, cursor, topology, hosts_info,
                   raised, invocations, data, update_failed, pending,
                   known_node_macs, known_client_macs,
                   binary_known_client_macs, entities>>

NextRefresh ==
    \/ FetchRaises \/ FetchReturns \/ AsyncUpdateData
    \/ SensorAddNewEntities \/ BinarySensorAddNewEntities \/ ScheduleRefresh

SpecRefresh == InitRefresh /\ [][NextRefresh]_vars

-----------------------------------------------------------------------------
(* Vocabulary of the claims *)

Returned == pc = "done"

Hubs == topology.mesh_nodes

\* where a ClientDevice sits in the result: <<h, k>> is the k-th client of the
\* h-th hub, <<0, k>> the k-th unassigned client
ClientAt(place) ==
    IF place[1] = 0
    THEN topology.unassigned_clients[place[2]]
    ELSE Hubs[place[1]].clients[place[2]]

Occupied ==
    {<<0, k>> : k \in DOMAIN topology.unassigned_clients}
    \cup UNION {{<<h, k>> : k \in DOMAIN Hubs[h].clients} : h \in DOMAIN Hubs}

HubOf(uid) == Hubs[CHOOSE h \in DOMAIN Hubs : Hubs[h].uid = uid]

IsHubUid(uid) == \E h \in DOMAIN Hubs : Hubs[h].uid = uid

\* a <= b by code point, written out recursively
RECURSIVE CodePointLeq(_, _)
CodePointLeq(a, b) ==
    IF a = <<>> THEN TRUE
    ELSE IF b = <<>> THEN FALSE
    ELSE IF Head(a) # Head(b) THEN Head(a) < Head(b)
    ELSE CodePointLeq(Tail(a), Tail(b))

-----------------------------------------------------------------------------
(* C1: in the returned topology the hardware address of every indexed non-hub
   node that has one appears exactly once across all hubs' client lists and
   the unassigned list. *)
C1_EachClientMacExactlyOnce ==
    Returned =>
        \A i \in DOMAIN all_nodes_by_uid :
            LET e == all_nodes_by_uid[i]
            IN  (~e.is_meshed /\ e.mac # <<>>) =>
                    Cardinality({pl \in Occupied : ClientAt(pl).mac = e.mac}) = 1

-----------------------------------------------------------------------------
(* C2: in the returned hub list every master precedes every hub of another
   role, within each group the names ascend by code point, and the list holds
   exactly the hubs of the index, whatever the order of the raw node list. *)
C2_HubsMasterFirstThenByName ==
    Returned =>
        /\ Len(Hubs) = Len(mesh_nodes_by_uid)
        /\ {Hubs[h].uid : h \in DOMAIN Hubs} = HubUids(all_nodes_by_uid)
        /\ \A i, j \in DOMAIN Hubs :
              i < j =>
                 /\ Hubs[j].role = "master" => Hubs[i].role = "master"
                 /\ (Hubs[i].role = "master") = (Hubs[j].role = "master")
                       => CodePointLeq(Hubs[i].name, Hubs[j].name)

\* a master listed last and two slaves "a", "B" listed first come out as
\* master, "B", "a"
C2_Witness ==
    /\ Returned
    /\ raw \in OrderSnapshots
    /\ Len(raw.nodes) = 3
    /\ raw.nodes[1].device_name = N_a /\ raw.nodes[1].mesh_role = "slave"
    /\ raw.nodes[2].device_name = N_B /\ raw.nodes[2].mesh_role = "slave"
    /\ raw.nodes[3].mesh_role = "master"
    /\ Len(Hubs) = 3
    /\ Hubs[1].role = "master" /\ Hubs[2].name = N_B /\ Hubs[3].name = N_a

-----------------------------------------------------------------------------
(* C3: for the scenario snapshot (master M with a connected wireless link to
   client C1 and a connected wired link to slave S, S with a connected
   wireless link to client C2) the result is hub list [M, S], M.clients =
   [C1], S.clients = [C2], S.parent_uid = M, S.parent_link_type = wired,
   M.parent_uid = None and no unassigned client. *)
C3_Scenario ==
    (Returned /\ raw \in ScenarioSnapshots) =>
        /\ Len(Hubs) = 2
        /\ Hubs[1].uid = U1 /\ Hubs[2].uid = U2
        /\ Len(Hubs[1].clients) = 1 /\ Hubs[1].clients[1].uid = U3
        /\ Hubs[1].clients[1].mac = MacOf(U3)
        /\ Len(Hubs[2].clients) = 1 /\ Hubs[2].clients[1].uid = U4
        /\ Hubs[2].clients[1].mac = MacOf(U4)
        /\ Hubs[2].parent_uid = Some(U1)
        /\ Hubs[2].parent_link_type = "LAN"
        /\ Hubs[1].parent_uid = None
        /\ topology.unassigned_clients = <<>>

\* the scenario returned, its nodes listed clients first and S before M
C3_Witness ==
    /\ Returned
    /\ raw \in ScenarioSnapshots
    /\ ~raw.nodes[1].is_meshed /\ ~raw.nodes[2].is_meshed
    /\ raw.nodes[3].uid = U2 /\ raw.nodes[4].uid = U1
    /\ Hubs[2].parent_uid = Some(U1)
    /\ Hubs[1].clients # <<>> /\ Hubs[2].clients # <<>>

-----------------------------------------------------------------------------
(* The link walk, for the claims *)

Order == walk_order

Walking == pc = "walk" /\ cursor < Len(Order)

\* the link the next WalkLink step visits
Current == Order[cursor + 1]

\* the link the last WalkLink step visited
Last == Order[cursor]

RoleOf(uid) == Lookup(all_nodes_by_uid, uid).mesh_role

\* a link visited from its first endpoint whose two endpoints are indexed hubs
HubToHub(w) ==
    /\ w.n1 = w.uid
    /\ Has(all_nodes_by_uid, w.n2)
    /\ Lookup(all_nodes_by_uid, w.uid).is_meshed
    /\ Lookup(all_nodes_by_uid, w.n2).is_meshed

\* a link visited from its first endpoint, a hub, to an indexed non-hub
HubToClient(w) ==
    /\ w.n1 = w.uid
    /\ Has(all_nodes_by_uid, w.n2)
    /\ Lookup(all_nodes_by_uid, w.uid).is_meshed
    /\ ~Lookup(all_nodes_by_uid, w.n2).is_meshed

\* "uplink" in any letter case somewhere in the name
HasUplinkMarker(name) ==
    \E i \in 0..(Len(name) - 6) :
        \A k \in 1..6 : name[i + k] \in {S_UPLINK[k], S_UPLINK[k] + 32}

\* the visit of w left child with the record (parent, data of w)
RecordedBy(w, child, parent) ==
    /\ child \in DOMAIN mesh_node_parent
    /\ mesh_node_parent[child] =
          [parent_uid |-> parent, link_type |-> w.iface_type,
           link_state |-> w.state, iface_name |-> w.iface_name,
           cur_rx |-> w.cur_rx, cur_tx |-> w.cur_tx,
           max_rx |-> w.max_rx, max_tx |-> w.max_tx]

-----------------------------------------------------------------------------
(* C4: the visit of a hub-to-hub link between a master and a slave records
   the master as the slave's parent, whichever of the two owns the link,
   when the slave has no parent recorded yet. *)
C4_MasterSlaveLink ==
    [][Walking /\ HubToHub(Current) =>
          LET n1 == Current.n1
              n2 == Current.n2
          IN  /\ (RoleOf(n1) = "master" /\ RoleOf(n2) = "slave"
                    /\ n2 \notin DOMAIN mesh_node_parent)
                 => (n2 \in DOMAIN mesh_node_parent'
                       /\ mesh_node_parent'[n2].parent_uid = n1)
              /\ (RoleOf(n1) = "slave" /\ RoleOf(n2) = "master"
                    /\ n1 \notin DOMAIN mesh_node_parent)
                 => (n1 \in DOMAIN mesh_node_parent'
                       /\ mesh_node_parent'[n1].parent_uid = n2)]_vars

\* a master-owned link has made its slave a child, then a slave-owned link
\* has made its owner the child of the master
C4_Witness ==
    /\ pc = "walk" /\ cursor = 2
    /\ HubToHub(Order[1]) /\ HubToHub(Order[2])
    /\ RoleOf(Order[1].n1) = "master" /\ RoleOf(Order[1].n2) = "slave"
    /\ RoleOf(Order[2].n1) = "slave" /\ RoleOf(Order[2].n2) = "master"
    /\ RecordedBy(Order[1], Order[1].n2, Order[1].n1)
    /\ RecordedBy(Order[2], Order[2].n1, Order[2].n2)

-----------------------------------------------------------------------------
(* C5: the visit of a hub-to-hub link between two slaves, owner N and other
   endpoint O: with "uplink" in any letter case in the owner's interface name
   O becomes N's parent, otherwise N becomes O's parent; a child that already
   has a parent keeps it. *)
C5_SlaveSlaveLink ==
    [][(Walking /\ HubToHub(Current)
           /\ RoleOf(Current.n1) = "slave" /\ RoleOf(Current.n2) = "slave") =>
          LET n ==  Current.n1
              o == Current.n2
              child == IF HasUplinkMarker(Current.iface_name) THEN n ELSE o
              parent == IF HasUplinkMarker(Current.iface_name) THEN o ELSE n
          IN  IF child \in DOMAIN mesh_node_parent
              THEN mesh_node_parent' = mesh_node_parent
              ELSE /\ DOMAIN mesh_node_parent' =
                         DOMAIN mesh_node_parent \cup {child}
                   /\ mesh_node_parent'[child].parent_uid = parent
                   /\ \A u \in DOMAIN mesh_node_parent :
                         mesh_node_parent'[u] = mesh_node_parent[u]]_vars

\* a slave-to-slave link on an interface named "lan:UpLink" has made the
\* other endpoint the owner's parent
C5_Witness ==
    /\ pc = "walk" /\ cursor >= 1
    /\ HubToHub(Last)
    /\ RoleOf(Last.n1) = "slave" /\ RoleOf(Last.n2) = "slave"
    /\ Last.n1 # Last.n2
    /\ Last.iface_name = I_UpLink.name
    /\ ~Contains(Last.iface_name, S_UPLINK)
    /\ RecordedBy(Last, Last.n1, Last.n2)

-----------------------------------------------------------------------------
(* C6 *)

\* the records of the links between hubs a and b, in either direction
Between(a, b) ==
    {k \in DOMAIN Order : {Order[k].n1, Order[k].n2} = {a, b}}

\* s1 and s2 are two slave hubs linked to each other, no interface that holds
\* a record of such a link has the uplink marker, and no other hub-to-hub
\* link is visited
SlavesLinkedPlainly(s1, s2) ==
    /\ s1 # s2
    /\ IsHubUid(s1) /\ IsHubUid(s2)
    /\ HubOf(s1).role = "slave" /\ HubOf(s2).role = "slave"
    /\ \E k \in Between(s1, s2) : HubToHub(Order[k])
    /\ \A k \in Between(s1, s2) : ~HasUplinkMarker(Order[k].iface_name)
    /\ \A k \in DOMAIN Order : HubToHub(Order[k]) => k \in Between(s1, s2)

(* C6, as claimed: for two slave hubs S1 and S2 linked to each other with no
   uplink marker in either interface name, S2 is recorded as S1's parent. *)
C6_Original ==
    Returned =>
        \A s1, s2 \in HubUids(all_nodes_by_uid) :
            SlavesLinkedPlainly(s1, s2) => HubOf(s1).parent_uid = Some(s2)

(* C6, amended: for two slave hubs S1 and S2 joined only by links that S2
   owns (S2 is their first endpoint), with no uplink marker in either
   interface name, S2 is recorded as S1's parent and S2 has no parent: the
   fallback branch makes the owner of the link the parent. *)
C6_OwnerIsParent ==
    Returned =>
        \A s1, s2 \in HubUids(all_nodes_by_uid) :
            (SlavesLinkedPlainly(s1, s2)
               /\ \A k \in Between(s1, s2) : Order[k].n1 = s2)
            => /\ HubOf(s1).parent_uid = Some(s2)
               /\ HubOf(s2).parent_uid = None

\* two slaves joined by one link on "AP:5G:0": the second endpoint has the
\* owner as parent
C6_Witness ==
    /\ Returned
    /\ \E s1, s2 \in HubUids(all_nodes_by_uid) :
          /\ SlavesLinkedPlainly(s1, s2)
          /\ \A k \in Between(s1, s2) : Order[k].n1 = s2
          /\ HubOf(s1).parent_uid = Some(s2)
          /\ HubOf(s1).parent_interface_name = I_AP.name

-----------------------------------------------------------------------------
(* C7: a returned hub has a parent only if its own role is slave, and the
   parent is then a hub of the list whose role is master or slave; the visit
   of a hub-to-hub link with an endpoint of any other role records no
   parent. *)
C7_ParentOnlyForSlaves ==
    /\ [](Returned =>
            \A h \in DOMAIN Hubs :
                Hubs[h].parent_uid # None =>
                    /\ Hubs[h].role = "slave"
                    /\ \E p \in DOMAIN Hubs :
                          /\ Hubs[p].uid = Hubs[h].parent_uid[1]
                          /\ Hubs[p].role \in {"master", "slave"})
    /\ [][(Walking /\ HubToHub(Current)
             /\ ~({RoleOf(Current.n1), RoleOf(Current.n2)}
                     \subseteq {"master", "slave"}))
          => mesh_node_parent' = mesh_node_parent]_vars

\* a link between an unknown-role hub and a slave was visited, another link
\* gave a slave its parent, and the unknown-role hub has none
C7_Witness ==
    /\ Returned
    /\ \E k \in DOMAIN Order :
          /\ HubToHub(Order[k])
          /\ {RoleOf(Order[k].n1), RoleOf(Order[k].n2)} = {"unknown", "slave"}
    /\ \E h \in DOMAIN Hubs : Hubs[h].parent_uid # None
    /\ \E h \in DOMAIN Hubs :
          Hubs[h].role = "unknown" /\ Hubs[h].parent_uid = None

-----------------------------------------------------------------------------
(* C8 *)

\* the links of the walk that make uid a child, in enumeration order
Qualifying(uid) ==
    {k \in DOMAIN Order :
        /\ IsBackboneLink(all_nodes_by_uid, Order[k])
        /\ Relation(all_nodes_by_uid, Order[k]) # None
        /\ Relation(all_nodes_by_uid, Order[k])[1].child = uid}

First(K) == CHOOSE k \in K : \A j \in K : k <= j

ParentData(hub) ==
    [parent_uid |-> hub.parent_uid, link_type |-> hub.parent_link_type,
     link_state |-> hub.parent_link_state,
     iface_name |-> hub.parent_interface_name,
     cur_rx |-> hub.parent_cur_rx_kbps, cur_tx |-> hub.parent_cur_tx_kbps,
     max_rx |-> hub.parent_max_rx_kbps, max_tx |-> hub.parent_max_tx_kbps]

LinkData(k) ==
    [parent_uid |-> Some(Relation(all_nodes_by_uid, Order[k])[1].parent),
     link_type |-> Order[k].iface_type, link_state |-> Order[k].state,
     iface_name |-> Order[k].iface_name,
     cur_rx |-> Order[k].cur_rx, cur_tx |-> Order[k].cur_tx,
     max_rx |-> Order[k].max_rx, max_tx |-> Order[k].max_tx]

(* C8: during the walk a parent record, once made, is never changed, and the
   parent uid, link type, link state, interface name and four throughput
   figures of a returned hub are those of the first link, in enumeration
   order, that makes it a child. *)
C8_FirstFoundWins ==
    /\ [][pc = "walk" =>
             \A u \in DOMAIN mesh_node_parent :
                 /\ u \in DOMAIN mesh_node_parent'
                 /\ mesh_node_parent'[u] = mesh_node_parent[u]]_vars
    /\ [](Returned =>
            \A h \in DOMAIN Hubs :
                Qualifying(Hubs[h].uid) # {} =>
                    ParentData(Hubs[h]) = LinkData(First(Qualifying(Hubs[h].uid))))

\* a hub made a child by two links that differ in parent or data keeps the
\* first one's
C8_Witness ==
    /\ Returned
    /\ \E h \in DOMAIN Hubs :
          \E k1, k2 \in Qualifying(Hubs[h].uid) :
              /\ k1 < k2
              /\ LinkData(k1) # LinkData(k2)
              /\ LinkData(k1).parent_uid # LinkData(k2).parent_uid
              /\ ParentData(Hubs[h]) = LinkData(First(Qualifying(Hubs[h].uid)))

-----------------------------------------------------------------------------
-----------------------------------------------------------------------------
(* C10 *)

\* the links that hub uid holds and owns to an indexed non-hub, in order
ClientLinksOf(uid) ==
    LET Mine(w) == w.uid = uid /\ HubToClient(w)
    IN  SelectSeq(Order, Mine)

(* C10: every link held by an interface of hub N, with N as first endpoint
   and an indexed non-hub O as other endpoint, puts exactly one ClientDevice
   on N's client list and on no other: the returned list of N is, link by
   link in enumeration order, O's uid, name and hardware address, the type
   and name of the interface that holds the link, and the link's state and
   four throughput figures. *)
C10_OneClientPerLink ==
    Returned =>
        \A h \in DOMAIN Hubs :
            LET links == ClientLinksOf(Hubs[h].uid)
            IN  /\ Len(Hubs[h].clients) = Len(links)
                /\ \A k \in DOMAIN links :
                      LET c == Hubs[h].clients[k]
                          o == Lookup(all_nodes_by_uid, links[k].n2)
                      IN  /\ c.uid = o.uid /\ c.name = o.name /\ c.mac = o.mac
                          /\ c.connection_type = links[k].iface_type
                          /\ c.interface_name = links[k].iface_name
                          /\ c.connection_state = links[k].state
                          /\ c.cur_rx_kbps = links[k].cur_rx
                          /\ c.cur_tx_kbps = links[k].cur_tx
                          /\ c.max_rx_kbps = links[k].max_rx
                          /\ c.max_tx_kbps = links[k].max_tx

\* a hub with two client links on different interfaces, one of them
\* DISCONNECTED, returns two clients
C10_Witness ==
    /\ Returned
    /\ \E h \in DOMAIN Hubs :
          LET links == ClientLinksOf(Hubs[h].uid)
          IN  /\ Len(links) = 2
              /\ links[1].iface_name # links[2].iface_name
              /\ links[2].state = "DISCONNECTED"
              /\ links[1].cur_rx # links[1].cur_tx
              /\ Len(Hubs[h].clients) = 2
              /\ Hubs[h].clients[2].connection_state = "DISCONNECTED"

-----------------------------------------------------------------------------
(* C11: the visit of a hub-owned link to an indexed non-hub appends the
   client to the owner's list whatever the link's state, with the raw state
   as connection_state; a client whose only such link is not CONNECTED is
   therefore on the owning hub's returned list with that state and not on
   the unassigned list. *)
C11_ClientAttachedWhateverState ==
    /\ [][(Walking /\ HubToClient(Current)) =>
             LET n1 == Current.n1
                 before == mesh_node_clients[n1]
                 after == mesh_node_clients'[n1]
             IN  /\ Len(after) = Len(before) + 1
                 /\ SubSeq(after, 1, Len(before)) = before
                 /\ after[Len(after)].uid = Current.n2
                 /\ after[Len(after)].connection_state = Current.state]_vars
    /\ [](Returned =>
            \A k \in DOMAIN Order :
                (HubToClient(Order[k]) /\ Order[k].state # "CONNECTED") =>
                    /\ \E c \in DOMAIN HubOf(Order[k].n1).clients :
                          /\ HubOf(Order[k].n1).clients[c].uid = Order[k].n2
                          /\ HubOf(Order[k].n1).clients[c].connection_state =
                                Order[k].state
                    /\ \A u \in DOMAIN topology.unassigned_clients :
                          topology.unassigned_clients[u].uid # Order[k].n2)

\* a client whose one hub-owned link is DISCONNECTED is returned on that
\* hub's list with the state DISCONNECTED, and nobody is unassigned but the
\* third node
C11_Witness ==
    /\ Returned
    /\ \E k \in DOMAIN Order :
          /\ HubToClient(Order[k])
          /\ Order[k].state = "DISCONNECTED"
          /\ \A j \in DOMAIN Order : HubToClient(Order[j]) => j = k
          /\ Len(HubOf(Order[k].n1).clients) = 1
          /\ HubOf(Order[k].n1).clients[1].uid = Order[k].n2
          /\ HubOf(Order[k].n1).clients[1].connection_state = "DISCONNECTED"
          /\ \A u \in DOMAIN topology.unassigned_clients :
                topology.unassigned_clients[u].uid # Order[k].n2

-----------------------------------------------------------------------------
(* C12 *)

\* record k2 is the copy, under its second endpoint, of record k1 held by
\* its first endpoint
Mirror(k1, k2) ==
    /\ Order[k1].n1 # Order[k1].n2
    /\ Order[k1].uid = Order[k1].n1
    /\ Order[k2].uid = Order[k1].n2
    /\ Order[k2].n1 = Order[k1].n1 /\ Order[k2].n2 = Order[k1].n2
    /\ Order[k2].state = Order[k1].state
    /\ Order[k2].cur_rx = Order[k1].cur_rx /\ Order[k2].cur_tx = Order[k1].cur_tx
    /\ Order[k2].max_rx = Order[k1].max_rx /\ Order[k2].max_tx = Order[k1].max_tx

\* the number of ClientDevice objects for uid o on the returned list of hub n
ClientCount(n, o) ==
    Cardinality({c \in DOMAIN HubOf(n).clients : HubOf(n).clients[c].uid = o})

\* the number of records from n to o that n itself holds
OwnRecords(n, o) ==
    Cardinality({k \in DOMAIN Order :
                    Order[k].uid = n /\ Order[k].n1 = n /\ Order[k].n2 = o})

(* C12: the visit of a record from a node that is not its first endpoint
   changes neither the client lists nor the parent records, and a visit
   makes at most one of the two kinds of change; so a link listed under both
   of its endpoints acts once: a hub-to-client link listed twice yields as
   many ClientDevice objects as the first endpoint holds records of it, and
   the copy under the second endpoint of a hub-to-hub link records nothing. *)
C12_MirroredLinkActsOnce ==
    /\ [][Walking =>
             /\ Current.n1 # Current.uid =>
                   /\ mesh_node_clients' = mesh_node_clients
                   /\ mesh_node_parent' = mesh_node_parent
             /\ \/ mesh_node_clients' = mesh_node_clients
                \/ mesh_node_parent' = mesh_node_parent]_vars
    /\ [](Returned =>
            \A k1, k2 \in DOMAIN Order :
                (Mirror(k1, k2) /\ HubToClient(Order[k1])) =>
                    ClientCount(Order[k1].n1, Order[k1].n2) =
                        OwnRecords(Order[k1].n1, Order[k1].n2))

\* the scenario with every link listed under both endpoints: one ClientDevice
\* for the mirrored client link, and the mirrored backbone link recorded, from
\* the master's copy, the slave's parent
C12_Witness ==
    /\ Returned
    /\ \E k1, k2 \in DOMAIN Order :
          /\ Mirror(k1, k2)
          /\ HubToClient(Order[k1])
          /\ ClientCount(Order[k1].n1, Order[k1].n2) = 1
    /\ \E k1, k2 \in DOMAIN Order :
          /\ Mirror(k1, k2)
          /\ HubToHub(Order[k1])
          /\ Lookup(all_nodes_by_uid, Order[k2].uid).is_meshed
          /\ RecordedBy(Order[k1], Order[k1].n2, Order[k1].n1)

-----------------------------------------------------------------------------
(* C13 *)

\* the uids on the returned hubs' client lists
AttachedUids ==
    UNION {{Hubs[h].clients[c].uid : c \in DOMAIN Hubs[h].clients} :
           h \in DOMAIN Hubs}

\* no link record names uid as an endpoint
Unreferenced(uid) ==
    \A k \in DOMAIN Order : Order[k].n1 # uid /\ Order[k].n2 # uid

(* C13: the returned unassigned list is, in index order, exactly the indexed
   non-hub nodes whose uid is on no hub's client list, each with the node's
   uid, name and hardware address, connection_state "unknown", an empty
   connection_type and zero throughput; a non-hub node that no link
   references is on it. *)
C13_UnassignedAreTheUnattached ==
    Returned =>
        LET Left(entry) == ~entry.is_meshed /\ entry.uid \notin AttachedUids
            left == SelectSeq(all_nodes_by_uid, Left)
            un == topology.unassigned_clients
        IN  /\ Len(un) = Len(left)
            /\ \A i \in DOMAIN left :
                  /\ un[i].uid = left[i].uid
                  /\ un[i].name = left[i].name
                  /\ un[i].mac = left[i].mac
                  /\ un[i].connection_state = "unknown"
                  /\ un[i].connection_type = ""
                  /\ un[i].cur_rx_kbps = 0 /\ un[i].cur_tx_kbps = 0
                  /\ un[i].max_rx_kbps = 0 /\ un[i].max_tx_kbps = 0
            /\ \A i \in DOMAIN all_nodes_by_uid :
                  (~all_nodes_by_uid[i].is_meshed
                     /\ Unreferenced(all_nodes_by_uid[i].uid))
                  => \E u \in DOMAIN un : un[u].uid = all_nodes_by_uid[i].uid

\* one non-hub attached through a DISCONNECTED link, another one referenced
\* by no link and alone on the unassigned list
C13_Witness ==
    /\ Returned
    /\ \E h \in DOMAIN Hubs :
          /\ Len(Hubs[h].clients) = 1
          /\ Hubs[h].clients[1].connection_state = "DISCONNECTED"
    /\ Len(topology.unassigned_clients) = 1
    /\ Unreferenced(topology.unassigned_clients[1].uid)
    /\ topology.unassigned_clients[1].connection_state = "unknown"
    /\ Cardinality({i \in DOMAIN all_nodes_by_uid :
                       ~all_nodes_by_uid[i].is_meshed}) = 2

-----------------------------------------------------------------------------
(* The enrichment, for the claims *)

Fetched == pc = "returned"

\* every ClientDevice of a topology: the hubs' lists in hub order, then the
\* unassigned list
AllClients(t) ==
    Concat([h \in DOMAIN t.mesh_nodes |-> t.mesh_nodes[h].clients])
    \o t.unassigned_clients

HostList == hosts_info.hosts

\* the same text but for the case of its letters
SameIgnoringCase(a, b) ==
    /\ Len(a) = Len(b)
    /\ \A i \in DOMAIN a :
          \/ a[i] = b[i]
          \/ a[i] \in 65..90 /\ b[i] = a[i] + 32
          \/ a[i] \in 97..122 /\ b[i] = a[i] - 32

\* the host records with an address that equals mac ignoring case
HostsFor(hosts, mac) ==
    {i \in DOMAIN hosts :
        /\ "mac" \in DOMAIN hosts[i]
        /\ hosts[i].mac # <<>>
        /\ SameIgnoringCase(hosts[i].mac, mac)}

\* a client with an address that some host record carries
Matched(hosts, client) == client.mac # <<>> /\ HostsFor(hosts, client.mac) # {}

\* the host record a matched client is enriched from: the last of them
HostOf(hosts, client) ==
    hosts[CHOOSE i \in HostsFor(hosts, client.mac) :
             \A j \in HostsFor(hosts, client.mac) : j <= i]

HostName(host) == IF "name" \in DOMAIN host THEN host.name ELSE <<>>

HostIp(host) == IF "ip" \in DOMAIN host THEN <<host.ip>> ELSE <<>>

\* the host list has arrived and enrich_with_host_info runs to its end on it
EnrichmentCompletes ==
    /\ pc = "enrich"
    /\ hosts_info.status = "ok"
    /\ \A i \in DOMAIN HostList :
          "mac" \in DOMAIN HostList[i] => HostList[i].mac # Null
    /\ \A k \in DOMAIN AllClients(topology) : AllClients(topology)[k].mac # Null

-----------------------------------------------------------------------------
(* C14: when enrich_with_host_info runs, a client matched to a host record
   ends with the host's name if the host's name is non-empty and the
   client's name was empty or longer than 20 characters, and with its own
   name otherwise; a name of 1 to 20 characters is kept. *)
C14_NameReplacedOnlyIfEmptyOrLong ==
    [][EnrichmentCompletes =>
          \A k \in DOMAIN AllClients(topology) :
              LET c == AllClients(topology)[k]
                  d == AllClients(topology')[k]
              IN  Matched(HostList, c) =>
                     LET name == HostName(HostOf(HostList, c))
                     IN  /\ d.name = IF /\ name # <<>>
                                       /\ (c.name = <<>> \/ Len(c.name) > 20)
                                    THEN name ELSE c.name
                         /\ Len(c.name) \in 1..20 => d.name = c.name]_vars

\* a matched client with a name of exactly 20 characters has kept it, and one
\* with a name of 21 characters has the host's name
C14_Witness ==
    /\ Fetched
    /\ hosts_info.status = "ok"
    /\ Len(HostList) = 2
    /\ HostList[1].mac = MacOf(U2) /\ HostName(HostList[1]) = N_A
    /\ HostList[2].mac = MacOf(U3) /\ HostName(HostList[2]) = N_b
    /\ raw.nodes[2].device_name = NameAtLimit
    /\ raw.nodes[3].device_name = NameOverLimit
    /\ raw.nodes[3].device_mac_address = MacOf(U3)
    /\ Len(Hubs) = 1 /\ Len(Hubs[1].clients) = 1
    /\ Len(Hubs[1].clients[1].name) = 20
    /\ Hubs[1].clients[1].ip = Some(IP_A)
    /\ Len(topology.unassigned_clients) = 1
    /\ topology.unassigned_clients[1].name = N_b

-----------------------------------------------------------------------------
(* C15: when enrich_with_host_info runs, every client, on a hub's list or
   unassigned, whose hardware address equals a host record's address
   ignoring letter case ends with that record's IP value (the last such
   record's), None when the record carries no IP; and a second enrichment of
   the returned topology sets the IP again, whatever the first one left. *)
C15_IpSetForEveryMatchedClient ==
    /\ [][EnrichmentCompletes =>
             \A k \in DOMAIN AllClients(topology) :
                 LET c == AllClients(topology)[k]
                     d == AllClients(topology')[k]
                 IN  Matched(HostList, c) =>
                         d.ip = HostIp(HostOf(HostList, c))]_vars
    /\ [](Fetched =>
            \A host \in HostPool :
                LET again == EnrichWithHostInfo(topology, <<host>>)
                IN  ~again.raised =>
                       \A k \in DOMAIN AllClients(topology) :
                           Matched(<<host>>, AllClients(topology)[k]) =>
                               AllClients(again.topology)[k].ip = HostIp(host))

\* a client with an upper-case address has the IP of the second of two host
\* records, whose address is in lower case, and an unassigned client that
\* no host record matches has none
C15_Witness ==
    /\ Fetched
    /\ hosts_info.status = "ok"
    /\ Len(HostList) = 2
    /\ HostList[1].mac = MacOf(U2) /\ HostIp(HostList[1]) = None
    /\ HostList[2].mac = LowerMacOf(U2) /\ HostIp(HostList[2]) = Some(IP_B)
    /\ Len(Hubs) = 1 /\ Len(Hubs[1].clients) = 1
    /\ Hubs[1].clients[1].mac = MacOf(U2)
    /\ Hubs[1].clients[1].ip = Some(IP_B)
    /\ Len(topology.unassigned_clients) = 1
    /\ topology.unassigned_clients[1].mac = MacOf(U3)
    /\ topology.unassigned_clients[1].ip = None

-----------------------------------------------------------------------------
(* C16 *)

\* a topology with the two fields the enrichment writes blanked out
WithoutHostData(t) ==
    LET Blank(clients) ==
            [k \in DOMAIN clients |->
                [clients[k] EXCEPT !.ip = None, !.name = <<>>]]
    IN  [t EXCEPT !.mesh_nodes =
                     [h \in DOMAIN t.mesh_nodes |->
                         [t.mesh_nodes[h] EXCEPT !.clients = Blank(@)]],
                  !.unassigned_clients = Blank(@)]

(* C16: whatever the host-list call and the enrichment do, fetch goes on to
   its return: no exception leaves it and what it returns is the topology
   parse_mesh_topology built, changed at most in the ip and name of its
   clients; when the host-list call itself raised it is exactly the
   un-enriched reconstruction. *)
C16_EnrichmentFailureIsNotFatal ==
    /\ pc = "enrich" => ENABLED Enrich
    /\ Fetched =>
          /\ ~raised
          /\ topology.built
          /\ WithoutHostData(topology) = WithoutHostData(ParseMeshTopology(raw))
          /\ hosts_info = HostsFailed => topology = ParseMeshTopology(raw)

\* fetch has returned after a failed host-list call: the hub, its client and
\* the unassigned client are there, without IP
C16_Witness ==
    /\ Fetched
    /\ hosts_info = HostsFailed
    /\ ~raised
    /\ Len(Hubs) = 1 /\ Len(Hubs[1].clients) = 1
    /\ Hubs[1].clients[1].ip = None
    /\ Len(topology.unassigned_clients) = 1

\* fetch has returned after an enrichment that raised half-way: the hub's
\* client has its IP, the unassigned client whose mac is None stopped it
C16_RaisedHalfWay ==
    /\ Fetched
    /\ hosts_info.status = "ok"
    /\ EnrichWithHostInfo(ParseMeshTopology(raw), HostList).raised
    /\ ~raised
    /\ Hubs[1].clients[1].ip = Some(IP_A)
    /\ topology.unassigned_clients[1].mac = Null

-----------------------------------------------------------------------------
(* C17 *)

Absent(d, key) == key \notin DOMAIN d

RawNodes == IF Absent(raw, "nodes") THEN <<>> ELSE raw.nodes

\* the interfaces of an indexed node and the links of an interface, as the
\* raw dicts list them
RawIfaces(i) ==
    IF Absent(all_nodes_by_uid[i].raw, "node_interfaces") THEN <<>>
    ELSE all_nodes_by_uid[i].raw.node_interfaces

RawLinks(i, j) ==
    IF Absent(RawIfaces(i)[j], "node_links") THEN <<>>
    ELSE RawIfaces(i)[j].node_links

RawLinkPlaces ==
    {<<i, j, k>> : i \in DOMAIN all_nodes_by_uid, j \in 1..MaxLinks + 2,
                   k \in 1..MaxLinks + 2}
    \cap {p \in (1..Len(all_nodes_by_uid)) \X (1..MaxLinks + 2)
                    \X (1..MaxLinks + 2) :
             /\ p[2] \in DOMAIN RawIfaces(p[1])
             /\ p[3] \in DOMAIN RawLinks(p[1], p[2])}

\* visit w is the raw link at place p, every absent field at its default
VisitOf(w, p) ==
    LET iface == RawIfaces(p[1])[p[2]]
        link == RawLinks(p[1], p[2])[p[3]]
    IN  /\ w.uid = all_nodes_by_uid[p[1]].uid
        /\ w.iface_type = (IF Absent(iface, "type") THEN "" ELSE iface.type)
        /\ w.iface_name = (IF Absent(iface, "name") THEN <<>> ELSE iface.name)
        /\ w.n1 = (IF Absent(link, "node_1_uid") THEN <<>> ELSE link.node_1_uid)
        /\ w.n2 = (IF Absent(link, "node_2_uid") THEN <<>> ELSE link.node_2_uid)
        /\ w.state = (IF Absent(link, "state") THEN "DISCONNECTED"
                      ELSE link.state)
        /\ w.cur_rx = (IF Absent(link, "cur_data_rate_rx") THEN 0
                       ELSE link.cur_data_rate_rx)
        /\ w.cur_tx = (IF Absent(link, "cur_data_rate_tx") THEN 0
                       ELSE link.cur_data_rate_tx)
        /\ w.max_rx = (IF Absent(link, "max_data_rate_rx") THEN 0
                       ELSE link.max_data_rate_rx)
        /\ w.max_tx = (IF Absent(link, "max_data_rate_tx") THEN 0
                       ELSE link.max_data_rate_tx)

(* C17: the parse of a snapshot with absent fields always comes to its
   return; a missing schema version
   is returned as "unknown", a missing node list as empty hub and unassigned
   lists; a node without uid, name, address, hub flag or role is indexed
   with "", the uid, "", False and "unknown"; a missing interface list or
   link list is walked as empty, and a link without endpoint, state or
   throughput is visited with "", DISCONNECTED and 0. *)
C17_Defaults ==
    /\ pc # "index" =>
          /\ \A j \in DOMAIN RawNodes :
                \E i \in DOMAIN all_nodes_by_uid :
                    all_nodes_by_uid[i].uid =
                        (IF Absent(RawNodes[j], "uid") THEN <<>>
                         ELSE RawNodes[j].uid)
          /\ \A i \in DOMAIN all_nodes_by_uid :
                LET e == all_nodes_by_uid[i]
                IN  /\ Absent(e.raw, "uid") => e.uid = <<>>
                    /\ Absent(e.raw, "device_name") => e.name = e.uid
                    /\ Absent(e.raw, "device_mac_address") => e.mac = <<>>
                    /\ Absent(e.raw, "is_meshed") => ~e.is_meshed
                    /\ Absent(e.raw, "mesh_role") => e.mesh_role = "unknown"
          /\ Len(walk_order) = Cardinality(RawLinkPlaces)
          /\ \A n \in DOMAIN walk_order :
                \E p \in RawLinkPlaces : VisitOf(walk_order[n], p)
    /\ Returned =>
          /\ Absent(raw, "schema_version") => topology.schema_version = "unknown"
          /\ Absent(raw, "nodes") =>
                topology.mesh_nodes = <<>> /\ topology.unassigned_clients = <<>>

C17_AbsentFieldsTakeDefaults == []C17_Defaults /\ <>Returned

\* a snapshot without version whose master lists two links without state or
\* throughput, on an interface without type or name, to a node that has only
\* a uid and to a slave: the client is attached under its uid as name, the
\* slave has its parent, both DISCONNECTED with zero throughput
C17_Witness ==
    /\ Returned
    /\ Absent(raw, "schema_version")
    /\ topology.schema_version = "unknown"
    /\ Len(Hubs) = 2
    /\ Hubs[1].role = "master" /\ Hubs[1].name = Hubs[1].uid
    /\ Len(Hubs[1].clients) = 1
    /\ Hubs[1].clients[1].name = Hubs[1].clients[1].uid
    /\ Hubs[1].clients[1].mac = <<>>
    /\ Hubs[1].clients[1].connection_state = "DISCONNECTED"
    /\ Hubs[1].clients[1].connection_type = ""
    /\ Hubs[1].clients[1].max_rx_kbps = 0
    /\ Hubs[2].parent_uid = Some(Hubs[1].uid)
    /\ Hubs[2].parent_link_state = "DISCONNECTED"
    /\ Hubs[2].parent_link_type = ""
    /\ Hubs[2].parent_max_tx_kbps = 0
    /\ topology.unassigned_clients = <<>>

-----------------------------------------------------------------------------
(* C18: a call of parse_mesh_topology returns what the function yields on
   its snapshot alone, whatever was parsed before it, and so the same
   topology as every earlier call on an equal snapshot: no hub, client or
   parent record of an earlier call is in it. *)
C18_ResultDependsOnSnapshotOnly ==
    Returned =>
        /\ topology = ParseMeshTopology(raw)
        /\ \A e \in DOMAIN earlier :
              earlier[e].raw = raw => earlier[e].topology = topology

\* the second call has returned a slave without parent and a master without
\* client, after a first call on another snapshot that gave the slave its
\* parent and the master a client
C18_Witness ==
    /\ Returned
    /\ invocations = 2
    /\ earlier[1].raw # raw
    /\ \E h \in DOMAIN earlier[1].topology.mesh_nodes :
          /\ earlier[1].topology.mesh_nodes[h].uid = U2
          /\ earlier[1].topology.mesh_nodes[h].parent_uid = Some(U1)
    /\ earlier[1].topology.mesh_nodes[1].clients # <<>>
    /\ HubOf(U2).parent_uid = None
    /\ HubOf(U1).clients = <<>>
    /\ Len(topology.unassigned_clients) = 1

-----------------------------------------------------------------------------
(* C19: no step of the parse or of the enrichment changes the raw snapshot,
   and from the return of the parse on, before and after the enrichment,
   the topology's raw field is that snapshot and its schema_version the
   snapshot's version tag ("unknown" for a snapshot without one). *)
C19_RawUntouchedAndHandedBack ==
    /\ [][raw' = raw]_vars
    /\ [](pc \in {"done", "enrich", "returned"} =>
            /\ topology.raw = raw
            /\ topology.schema_version =
                  (IF "schema_version" \in DOMAIN raw THEN raw.schema_version
                   ELSE "unknown"))

\* fetch has returned a topology whose client got IP and name from the host
\* list, with the snapshot as handed in and its version tag
C19_Witness ==
    /\ Fetched
    /\ hosts_info.status = "ok"
    /\ "schema_version" \in DOMAIN raw
    /\ raw.schema_version = "1.8"
    /\ Len(raw.nodes) = 3
    /\ raw.nodes[2].device_name = <<>>
    /\ Hubs[1].clients[1].ip = Some(IP_A)
    /\ Hubs[1].clients[1].name = N_A
    /\ topology.raw = raw
    /\ topology.raw.nodes[2].device_name = <<>>
    /\ topology.schema_version = "1.8"

-----------------------------------------------------------------------------
(* C20 *)

\* the links owned by a hub that reach the indexed non-hub with address mac,
\* in the order of their processing
LinksReaching(mac) ==
    {k \in DOMAIN Order :
        HubToClient(Order[k])
        /\ Lookup(all_nodes_by_uid, Order[k].n2).mac = mac}

LastOf(K) == CHOOSE k \in K : \A j \in K : j <= k

\* the ClientDevice built from link k
BuiltFrom(k) == ClientOfLink(all_nodes_by_uid, Order[k])

(* C20: when several hub-owned links reach the same client hardware address,
   only the ClientDevice built from the last processed of them stands for
   that client: the topology holds one ClientDevice with the address, that
   one, or at least the coordinator's clients_by_mac holds that one. *)
C20_LastProcessedLinkOnly ==
    Returned =>
        \A i \in DOMAIN all_nodes_by_uid :
            LET mac == all_nodes_by_uid[i].mac
            IN  (~all_nodes_by_uid[i].is_meshed /\ mac # <<>>
                   /\ Cardinality(LinksReaching(mac)) > 1) =>
                    \/ \A pl \in Occupied :
                          ClientAt(pl).mac = mac =>
                              /\ ClientAt(pl) = BuiltFrom(LastOf(LinksReaching(mac)))
                              /\ \A other \in Occupied :
                                    ClientAt(other).mac = mac => other = pl
                    \/ /\ mac \in DOMAIN ClientsByMac(topology)
                       /\ ClientsByMac(topology)[mac].client =
                             BuiltFrom(LastOf(LinksReaching(mac)))


-----------------------------------------------------------------------------
(* C21 *)

\* which hub is recorded as which hub's parent
ParentsIn(t) ==
    {<<t.mesh_nodes[h].uid, t.mesh_nodes[h].parent_uid>> :
        h \in DOMAIN t.mesh_nodes}

\* the call before this one
Before == earlier[Len(earlier)]

\* the places where the snapshot differs from the one of the call before
Moved == {p \in LinkPlaces(raw) : LinkAt(raw, p) # LinkAt(Before.raw, p)}

\* the second parse, of the reordered snapshot, has returned
ReorderedReturned == Returned /\ earlier # <<>>

\* the records that changed places are on one link list
MovedWithinOneList ==
    \A p, q \in Moved : p[1] = q[1] /\ p[2] = q[2]

(* C21, as claimed: permuting the order of the link records that join the
   same two hubs does not change which hub is recorded as which hub's
   parent; stated for the records of one interface's link list. *)
C21_Original ==
    (ReorderedReturned /\ MovedWithinOneList)
    => ParentsIn(topology) = ParentsIn(Before.topology)

(* C21, amended: permuting the order of the link records that join the same
   two hubs and name the same one of them as first endpoint does not change
   which hub is recorded as which hub's parent. *)
C21_SameDirectionReorder ==
    (ReorderedReturned
       /\ \A p, q \in Moved :
             LinkAt(raw, p).node_1_uid = LinkAt(raw, q).node_1_uid)
    => ParentsIn(topology) = ParentsIn(Before.topology)

\* two records from u1 to u2 with different data have changed places around
\* a record from u1 to u3, and u1 has u2 as parent in both results
C21_Witness ==
    /\ ReorderedReturned
    /\ Cardinality(Moved) = 2
    /\ \A p \in Moved :
          /\ LinkAt(raw, p).node_1_uid = U1
          /\ LinkAt(raw, p).node_2_uid = U2
    /\ \E p, q \in Moved, r \in LinkPlaces(raw) :
          /\ p[1] = r[1] /\ p[2] = r[2] /\ q[1] = r[1] /\ q[2] = r[2]
          /\ p[3] < r[3] /\ r[3] < q[3]
          /\ LinkAt(raw, r).node_2_uid = U3
    /\ <<U1, Some(U2)>> \in ParentsIn(topology)
    /\ ParentsIn(topology) = ParentsIn(Before.topology)


-----------------------------------------------------------------------------
(* C22 *)

\* the other endpoint of the visited link is not in the node index
Orphaned(w) == ~Has(all_nodes_by_uid, w.n2)

\* the places of the raw link records whose other endpoint is not indexed
OrphanPlaces ==
    {p \in LinkPlaces(raw) :
        ~Has(all_nodes_by_uid, Get(LinkAt(raw, p), "node_2_uid", <<>>))}

\* a topology without the snapshot it carries along
Reconstruction(t) == [t EXCEPT !.raw = EmptyDict]

(* C22: the visit of a link whose other endpoint is not in the node index
   changes neither a client list nor a parent record and goes on to the next
   link without an error, and the returned hubs, clients, parents, unassigned
   list and version are those of the parse of the same snapshot with that
   link record removed. *)
C22_OrphanedLinkSkipped ==
    /\ [][(Walking /\ Orphaned(Current)) =>
             /\ mesh_node_clients' = mesh_node_clients
             /\ mesh_node_parent' = mesh_node_parent
             /\ cursor' = cursor + 1
             /\ pc' = "walk" /\ ~raised']_vars
    /\ [](Returned =>
            \A p \in OrphanPlaces :
                Reconstruction(topology) =
                    Reconstruction(ParseMeshTopology(WithoutLink(raw, p))))

\* hub u1 owns a link to u9, which is no node, and a link to a client: the
\* client is on its list, u9 is nowhere, and without the u9 record the parse
\* gives the same
C22_Witness ==
    /\ Returned
    /\ \E k \in DOMAIN Order :
          /\ Order[k].uid = U1 /\ Order[k].n1 = U1 /\ Order[k].n2 = U9
          /\ Lookup(all_nodes_by_uid, U1).is_meshed
    /\ \E p \in OrphanPlaces :
          /\ LinkAt(raw, p).node_2_uid = U9
          /\ Len(ParseMeshTopology(WithoutLink(raw, p)).mesh_nodes[1].clients) = 1
    /\ IsHubUid(U1) /\ Len(HubOf(U1).clients) = 1
    /\ \A pl \in Occupied : ClientAt(pl).uid # U9


-----------------------------------------------------------------------------
(* C23 *)

IsIndexedNonHub(uid) ==
    Has(all_nodes_by_uid, uid) /\ ~Lookup(all_nodes_by_uid, uid).is_meshed

IsIndexedHub(uid) ==
    Has(all_nodes_by_uid, uid) /\ Lookup(all_nodes_by_uid, uid).is_meshed

\* the records that join non-hub c and some hub
LinksToHubs(c) ==
    {k \in DOMAIN Order :
        \/ Order[k].n1 = c /\ IsIndexedHub(Order[k].n2)
        \/ Order[k].n2 = c /\ IsIndexedHub(Order[k].n1)}

UnassignedUids ==
    {topology.unassigned_clients[u].uid : u \in DOMAIN topology.unassigned_clients}

(* C23: the visit of a link whose first endpoint is a non-hub node changes
   neither a client list nor a parent record, whoever holds the record; a
   non-hub node all of whose links to hubs name it as first endpoint is
   returned on the unassigned list and on no hub's client list. *)
C23_ClientOwnedLinkDoesNothing ==
    /\ [][(Walking /\ IsIndexedNonHub(Current.n1)) =>
             /\ mesh_node_clients' = mesh_node_clients
             /\ mesh_node_parent' = mesh_node_parent]_vars
    /\ [](Returned =>
            \A i \in DOMAIN all_nodes_by_uid :
                LET c == all_nodes_by_uid[i].uid
                IN  (/\ ~all_nodes_by_uid[i].is_meshed
                     /\ LinksToHubs(c) # {}
                     /\ \A k \in LinksToHubs(c) : Order[k].n1 = c)
                    => /\ c \in UnassignedUids
                       /\ c \notin AttachedUids)

\* client u3 holds a CONNECTED link from itself to hub u1, its only link: it
\* is unassigned, and u1 has no client
C23_Witness ==
    /\ Returned
    /\ IsIndexedNonHub(U3) /\ IsIndexedHub(U1)
    /\ \E k \in LinksToHubs(U3) :
          /\ Order[k].uid = U3 /\ Order[k].n1 = U3 /\ Order[k].n2 = U1
          /\ Order[k].state = "CONNECTED"
    /\ \A k \in LinksToHubs(U3) : Order[k].n1 = U3
    /\ U3 \in UnassignedUids
    /\ HubOf(U1).clients = <<>>


-----------------------------------------------------------------------------
(* C24 *)

\* a hub without its client list
HubAlone(node) == [node EXCEPT !.clients = <<>>]

\* client d is client c but for name and ip
SameButNameAndIp(c, d) == d = [c EXCEPT !.name = d.name, !.ip = d.ip]

\* list after is list before, client by client, changed at most in the name
\* and ip of the clients that a host record matches
EnrichedList(before, after) ==
    /\ Len(after) = Len(before)
    /\ \A k \in DOMAIN before :
          /\ SameButNameAndIp(before[k], after[k])
          /\ (hosts_info.status # "ok" \/ ~Matched(HostList, before[k]))
                => after[k] = before[k]

(* C24: the enrichment step leaves everything as it was but the name and ip
   of the ClientDevice values that a host record matches: the hubs with all
   their fields and in their order, the length and order of every client list
   and of the unassigned list, every other field of every client, every
   client without a matching host record, the version and the raw
   snapshot. *)
C24_EnrichmentTouchesNameAndIpOnly ==
    [][pc = "enrich" =>
          /\ Len(topology'.mesh_nodes) = Len(topology.mesh_nodes)
          /\ \A h \in DOMAIN topology.mesh_nodes :
                /\ HubAlone(topology'.mesh_nodes[h]) =
                      HubAlone(topology.mesh_nodes[h])
                /\ EnrichedList(topology.mesh_nodes[h].clients,
                                topology'.mesh_nodes[h].clients)
          /\ EnrichedList(topology.unassigned_clients,
                          topology'.unassigned_clients)
          /\ topology'.schema_version = topology.schema_version
          /\ topology'.raw = topology.raw
          /\ raw' = raw /\ hosts_info' = hosts_info]_vars

\* the hub's client, with a lower-case address, has the name and the IP of
\* its host record and its address as before; the unassigned client, which
\* no host record matches, is as the parse returned it
C24_Witness ==
    /\ Fetched
    /\ hosts_info.status = "ok"
    /\ Len(HostList) = 1
    /\ HostList[1].mac = MacOf(U2) /\ HostName(HostList[1]) = N_A
    /\ Len(Hubs) = 1 /\ Len(Hubs[1].clients) = 1
    /\ Hubs[1].clients[1].mac = LowerMacOf(U2)
    /\ Hubs[1].clients[1].name = N_A
    /\ Hubs[1].clients[1].ip = Some(IP_A)
    /\ Hubs[1].clients[1].connection_state = "CONNECTED"
    /\ Hubs[1].ip = None /\ Hubs[1].parent_uid = None
    /\ topology.unassigned_clients =
          ParseMeshTopology(raw).unassigned_clients
    /\ Len(topology.unassigned_clients) = 1
    /\ topology.unassigned_clients[1].name = NameOverLimit


-----------------------------------------------------------------------------
(* The refreshes, for the claims *)

\* _fetch has ended, by an exception or with a topology, and
\* _async_update_data goes on from its await
FetchEnded == pc = "fetched"

\* the refresh is over and its listeners are being called
Refreshed == pc = "notify"

-----------------------------------------------------------------------------
(* C25: when the fetch of a refresh has raised, _async_update_data raises
   UpdateFailed and the coordinator's data stay what they were, no
   FritzMeshData being built; the data change only in a refresh whose fetch
   returned, and then to the FritzMeshData built from the fetched
   topology. *)
C25_FailedFetchPublishesNothing ==
    /\ [][(FetchEnded /\ raised) => (update_failed' /\ data' = data)]_vars
    /\ [][(FetchEnded /\ ~raised) =>
             (~update_failed' /\ data' = FritzMeshData(topology))]_vars
    /\ [][data' # data => (FetchEnded /\ ~raised)]_vars

\* the second refresh has failed after a first one that returned a client:
\* UpdateFailed is raised and the data are still those of the first refresh
C25_Witness ==
    /\ Refreshed
    /\ raised /\ update_failed
    /\ Len(earlier) = 1
    /\ ~earlier[1].raised
    /\ data = FritzMeshData(earlier[1].topology)
    /\ MacOf(U2) \in DOMAIN data.clients_by_mac
    /\ FritzMeshData(topology) # data


-----------------------------------------------------------------------------
(* C26 *)

\* how often entity e was given to async_add_entities
Created(e) == IF e \in DOMAIN entities THEN entities[e] ELSE 0

\* the FritzMeshData of an earlier refresh that returned
DataOf(e) == FritzMeshData(earlier[e].topology)

(* C26: over the refreshes of a coordinator no entity is created twice: each
   sensor and binary sensor of a client or mesh-node MAC is given to
   async_add_entities at most once, the known sets only grow, and a listener
   creates entities only for a MAC its known set did not hold; so a MAC that
   is gone in one refresh and back in a later one gets no second set. *)
C26_EntitiesCreatedOncePerMac ==
    /\ [](\A e \in DOMAIN entities : entities[e] = 1)
    /\ [][/\ known_node_macs \subseteq known_node_macs'
          /\ known_client_macs \subseteq known_client_macs'
          /\ binary_known_client_macs \subseteq binary_known_client_macs'
          /\ \A e \in DOMAIN entities' :
                Created(e) = 0 =>
                    \/ e = TopologySensor
                    \/ e \in NodeSensors(e.mac) /\ e.mac \notin known_node_macs
                    \/ e \in ClientSensors(e.mac)
                          /\ e.mac \notin known_client_macs
                    \/ e \in ClientBinarySensors(e.mac)
                          /\ e.mac \notin binary_known_client_macs]_vars

\* client u2 and hub u3 were there in the first refresh, gone in the second
\* and are back in the third, whose listeners have run: each of their
\* entities was created once
C26_Witness ==
    /\ Refreshed /\ pending = {}
    /\ ~raised
    /\ Len(earlier) = 2
    /\ ~earlier[1].raised /\ ~earlier[2].raised
    /\ MacOf(U2) \in DOMAIN DataOf(1).clients_by_mac
    /\ MacOf(U3) \in DOMAIN DataOf(1).mesh_nodes_by_mac
    /\ MacOf(U2) \notin DOMAIN DataOf(2).clients_by_mac
    /\ MacOf(U3) \notin DOMAIN DataOf(2).mesh_nodes_by_mac
    /\ MacOf(U2) \in DOMAIN data.clients_by_mac
    /\ MacOf(U3) \in DOMAIN data.mesh_nodes_by_mac
    /\ \A e \in ClientSensors(MacOf(U2)) \cup ClientBinarySensors(MacOf(U2))
                \cup NodeSensors(MacOf(U3)) : Created(e) = 1


-----------------------------------------------------------------------------
(* C27 *)

\* client.mac is truthy
HasMac(client) == client.mac # <<>> /\ client.mac # Null

\* node.clients holds the ClientDevice
Holds(node, client) == \E k \in DOMAIN node.clients : node.clients[k] = client

(* C27: after a refresh that succeeded clients_by_mac has an entry under the
   MAC of every client of the topology that has one, and the second element
   of that entry is the hub whose client list holds the client, and None
   exactly when the client is on the unassigned list. *)
C27_EntryNamesTheClientsHub ==
    Refreshed /\ ~update_failed =>
        \A place \in Occupied :
            LET client == ClientAt(place)
            IN  HasMac(client) =>
                    /\ client.mac \in DOMAIN data.clients_by_mac
                    /\ LET entry == data.clients_by_mac[client.mac]
                       IN  /\ entry.node = None <=> place[1] = 0
                           /\ entry.node # None => Holds(entry.node[1], client)


-----------------------------------------------------------------------------
(* C28 *)

\* the hubs reached from the hub uid by following parent_uid up to n times
RECURSIVE Climb(_, _)
Climb(uid, n) ==
    IF n = 0 \/ ~IsHubUid(uid) \/ HubOf(uid).parent_uid = None
    THEN {}
    ELSE LET up == HubOf(uid).parent_uid[1]
         IN  {up} \cup Climb(up, n - 1)

(* C28: the parent relation of a returned topology is acyclic: no hub is its
   own parent, and following parent_uid from a hub never leads back to it. *)
C28_ParentsAcyclic ==
    Returned =>
        \A h \in DOMAIN Hubs : Hubs[h].uid \notin Climb(Hubs[h].uid, Len(Hubs))


-----------------------------------------------------------------------------
(* C29 *)

EnrichedTwice == pc = "twice"

(* C29: enrich_with_host_info is idempotent: a second call on the topology
   the first call left, with the same host list, changes nothing, whether
   the calls return or raise. *)
C29_EnrichmentIdempotent ==
    [][pc = "returned" /\ pc' = "twice" => topology' = topology]_vars

\* client u2 came with a name over the limit; the first call gave it the
\* host's name and ip, and the second call has run
C29_Witness ==
    /\ EnrichedTwice
    /\ raw.nodes[2].device_name = NameOverLimit
    /\ \E place \in Occupied :
          /\ ClientAt(place).uid = U2
          /\ ClientAt(place).name = N_A
          /\ ClientAt(place).ip = Some(IP_A)


-----------------------------------------------------------------------------
(* C30 *)

\* the places of the hub list that hold the hub uid
HubPlaces(uid) == {h \in DOMAIN Hubs : Hubs[h].uid = uid}

\* the ClientDevice carries uid, name and mac of the index entry of its uid
MadeOf(client, entry) ==
    /\ client.uid = entry.uid
    /\ client.name = entry.name
    /\ client.mac = entry.mac

(* C30: the parse partitions the indexed nodes by the hub flag: every
   indexed node with is_meshed set is exactly once in the hub list and is no
   ClientDevice, on a hub's client list or on the unassigned list; and every
   ClientDevice of the result is built from an indexed node whose is_meshed
   is not set. *)
C30_PartitionByHubFlag ==
    Returned =>
        /\ \A uid \in HubUids(all_nodes_by_uid) :
              /\ Cardinality(HubPlaces(uid)) = 1
              /\ \A place \in Occupied : ClientAt(place).uid # uid
        /\ \A place \in Occupied :
              /\ IsIndexedNonHub(ClientAt(place).uid)
              /\ MadeOf(ClientAt(place),
                        Lookup(all_nodes_by_uid, ClientAt(place).uid))

\* two hubs, a link between them was walked and gave a parent, and a client
\* is on a hub's list
C30_Witness ==
    /\ Returned
    /\ Cardinality(HubUids(all_nodes_by_uid)) = 2
    /\ \E h \in DOMAIN Hubs : Hubs[h].parent_uid # None
    /\ \E place \in Occupied : place[1] # 0

=============================================================================
